---------------------------- MODULE Spec2Model ----------------------------
(***************************************************************************)
(* Model of the creative-work report pipeline (helpers.py, app.py,         *)
(* config.py, export_utils.py, test_aggregation.py): the time and          *)
(* percentage parsers, the colour bands, the Level 0/1/2 reshaper, the     *)
(* validation and processing steps of main, the worklog upload, the        *)
(* ranking functions, the productivity table and personal statistics, the  *)
(* repair of Polish characters, the task categories, the worklog           *)
(* normalizer, its month groups and the worklog aggregation.               *)
(*                                                                         *)
(* Text is a sequence of one-character strings.  A float is a record       *)
(* [k, n, d]: k = "num" is the rational n/d (d > 0), k = "inf" is +-inf    *)
(* (sign in n), k = "nan" is NaN.  An optional value is <<>> (None / NaN   *)
(* cell) or <<v>>.                                                         *)
(***************************************************************************)
EXTENDS Integers, Sequences, FiniteSets, TLC

VARIABLES
    fn,            \* pure-function harness: the function under evaluation
    arg,           \* its argument (a spreadsheet cell)
    res,           \* its result, once pc = "done"
    pc,            \* "call" before the function ran, "done" after
    rows,          \* process_excel_data: rows of df iterated so far
    current_user,  \* process_excel_data: local current_user
    current_task,  \* process_excel_data: index in report_data of the dict current_task refers to (0 = None)
    report_data,   \* process_excel_data: local report_data
    scan,          \* "loop" while df.iterrows() runs, "returned" after the DataFrame conversion
    columns,       \* the optional columns the report sheet has
    wl_raw,        \* worklog rows read from the worklog sheet (df_raw)
    df_processed,  \* the normalised worklog table (process_worklogs_data / df_processed)
    df_agg,        \* the aggregated table (test_aggregation.py df_final)
    wl_pc,         \* "read", "processed", then "aggregated" or "grouped"
    df_worklogs_by_month, \* main: the month groups of the normalised worklog table
    tasks,         \* ranking: the table of task records (df) the ranking functions receive
    summary,       \* generate_executive_summary: top_performer and top_performer_score
    top_tasks,     \* the table get_top_task_per_person returns
    most_creative, \* main: most_creative_df_sorted of the report tab
    stats,         \* generate_personal_stats: person_name and the creative_score returned
    rank_pc,       \* "table", "summarised", "ranked", "listed", "stats"
    sheet_columns, \* main: df_raw.columns of the uploaded report sheet
    df_raw,        \* main: the rows of the uploaded report sheet
    issues,        \* main: issues returned by validate_data_structure
    warnings,      \* main: warnings returned by validate_data_structure
    df_result,     \* main: df_processed, the table process_excel_data returned
    main_pc,       \* main: position in the run
    worklogs_file, \* main: the optional worklog upload
    months_available, \* main: the months offered for the worklog analysis
    worklog_error, \* main: the handler of line 358 has reported a worklog failure
    tabs,          \* main: the sections rendered ("report", "months")
    category_table,        \* categories: the task table (df / person_df) whose tasks are classified
    categories_data, \* categories: the dict categories_data built by the classification loop
    cat_pc         \* "table" while the table is read, "classified" after the loop

vars == <<fn, arg, res, pc, rows, current_user, current_task, report_data,
          scan, columns, wl_raw, df_processed, df_agg, wl_pc,
          df_worklogs_by_month, tasks, summary, top_tasks, most_creative, stats,
          rank_pc, sheet_columns, df_raw, issues, warnings, df_result, main_pc,
          worklogs_file, months_available, worklog_error, tabs,
          category_table, categories_data, cat_pc>>

pureVars == <<fn, arg, res, pc>>
scanVars == <<rows, current_user, current_task, report_data, scan, columns>>
wlVars   == <<wl_raw, df_processed, df_agg, wl_pc, df_worklogs_by_month>>
rankVars == <<tasks, summary, top_tasks, most_creative, stats, rank_pc>>
loadVars == <<worklogs_file, months_available, worklog_error, tabs>>
mainVars == <<sheet_columns, df_raw, issues, warnings, df_result, main_pc, loadVars>>
catVars  == <<category_table, categories_data, cat_pc>>

-----------------------------------------------------------------------------
(* Bounds *)

MaxLen == 4         \* longest enumerated cell text
MaxMinutes == 130   \* longest duration (minutes) formatted by hours_to_hm_format
MaxRows == 4        \* rows of the hierarchical report
MaxWorklogs == 3    \* rows of the worklog sheet
MaxTasks == 3       \* task records of the table handed to the ranking functions
MaxSheet == 3       \* rows of the report sheet main validates
MaxPercent == 101   \* largest percentage coloured
MaxCat == 3         \* tasks of the table whose tasks are classified
MaxTeam == 5        \* persons of the team summarised

-----------------------------------------------------------------------------
(* Optional values, text *)

None == <<>>
Some(v) == <<v>>
IsNone(o) == o = <<>>
Val(o) == o[1]

Digits == {"0", "1", "2", "3", "4", "5", "6", "7", "8", "9"}

DigitVal(c) ==
    CASE c = "0" -> 0 [] c = "1" -> 1 [] c = "2" -> 2 [] c = "3" -> 3
      [] c = "4" -> 4 [] c = "5" -> 5 [] c = "6" -> 6 [] c = "7" -> 7
      [] c = "8" -> 8 [] c = "9" -> 9

DigitChar(n) ==
    CASE n = 0 -> "0" [] n = 1 -> "1" [] n = 2 -> "2" [] n = 3 -> "3"
      [] n = 4 -> "4" [] n = 5 -> "5" [] n = 6 -> "6" [] n = 7 -> "7"
      [] n = 8 -> "8" [] n = 9 -> "9"

\* str.lower() on the letters that occur in the modelled texts
LowerChar(c) ==
    CASE c = "N" -> "n" [] c = "A" -> "a" [] c = "O" -> "o" [] c = "E" -> "e"
      [] c = "I" -> "i" [] c = "F" -> "f" [] c = "B" -> "b" [] c = "P" -> "p"
      [] c = "C" -> "c" [] c = "R" -> "r" [] c = "L" -> "l"
      [] OTHER -> c

Lower(s) == [i \in 1..Len(s) |-> LowerChar(s[i])]

RECURSIVE LStrip(_)
LStrip(s) == IF s # <<>> /\ Head(s) = " " THEN LStrip(Tail(s)) ELSE s

RECURSIVE RStrip(_)
RStrip(s) ==
    IF s # <<>> /\ s[Len(s)] = " " THEN RStrip(SubSeq(s, 1, Len(s) - 1)) ELSE s

\* str.strip()
Strip(s) == RStrip(LStrip(s))

\* c in s
HasChar(s, c) == \E i \in 1..Len(s) : s[i] = c

\* sub in s
Contains(s, sub) ==
    \E i \in 1..(Len(s) - Len(sub) + 1) : SubSeq(s, i, i + Len(sub) - 1) = sub

\* s.split(sep) for a one-character separator
RECURSIVE Split(_, _)
Split(s, sep) ==
    IF ~HasChar(s, sep) THEN <<s>>
    ELSE LET i == CHOOSE j \in 1..Len(s) :
                     s[j] = sep /\ \A k \in 1..(j - 1) : s[k] # sep
         IN  <<SubSeq(s, 1, i - 1)>> \o Split(SubSeq(s, i + 1, Len(s)), sep)

AllDigits(s) == s # <<>> /\ \A i \in 1..Len(s) : s[i] \in Digits

\* value of a digit string
RECURSIVE DigitsVal(_)
DigitsVal(s) ==
    IF s = <<>> THEN 0
    ELSE 10 * DigitsVal(SubSeq(s, 1, Len(s) - 1)) + DigitVal(s[Len(s)])

RECURSIVE Pow10(_)
Pow10(k) == IF k = 0 THEN 1 ELSE 10 * Pow10(k - 1)

\* str(n) of a non-negative int
RECURSIVE NatToStr(_)
NatToStr(n) ==
    IF n < 10 THEN <<DigitChar(n)>>
    ELSE NatToStr(n \div 10) \o <<DigitChar(n % 10)>>

\* str(n) of an int
IntToStr(n) == IF n < 0 THEN <<"-">> \o NatToStr(-n) ELSE NatToStr(n)

-----------------------------------------------------------------------------
(* Floats *)

Num(n, d) == [k |-> "num", n |-> n, d |-> d]
NaN == [k |-> "nan", n |-> 0, d |-> 1]
Inf(sign) == [k |-> "inf", n |-> sign, d |-> 1]
Zero == Num(0, 1)

IsNum(x) == x.k = "num"

\* x == y on floats (NaN equals nothing)
FEq(x, y) ==
    \/ IsNum(x) /\ IsNum(y) /\ x.n * y.d = y.n * x.d
    \/ x.k = "inf" /\ y.k = "inf" /\ x.n = y.n

\* x <= y on floats
FLe(x, y) ==
    \/ IsNum(x) /\ IsNum(y) /\ x.n * y.d <= y.n * x.d
    \/ x.k = "inf" /\ x.n < 0 /\ y.k # "nan"
    \/ y.k = "inf" /\ y.n > 0 /\ x.k # "nan"


\* int(x) of a float: truncation toward zero
Trunc(x) == IF x.n >= 0 THEN x.n \div x.d ELSE -((-x.n) \div x.d)

-----------------------------------------------------------------------------
(* Spreadsheet cells: an empty cell (NaN), a text cell, an integer cell *)

NullCell == [kind |-> "null", s |-> <<>>, n |-> 0]
Text(s) == [kind |-> "text", s |-> s, n |-> 0]
IntCell(n) == [kind |-> "int", s |-> <<>>, n |-> n]

\* pd.isna(x)
IsNa(c) == c.kind = "null"

\* x == ""
IsEmptyStr(c) == c.kind = "text" /\ c.s = <<>>

\* str(x)
Str(c) == IF c.kind = "int" THEN IntToStr(c.n) ELSE c.s

-----------------------------------------------------------------------------
(* Python's int(str) and float(str); <<>> stands for a raised ValueError *)

\* int(s): surrounding whitespace, an optional sign, decimal digits
IntParse(s) ==
    LET t == Strip(s)
        signed == t # <<>> /\ Head(t) \in {"-", "+"}
        body == IF signed THEN Tail(t) ELSE t
    IN  IF AllDigits(body)
        THEN Some(IF signed /\ Head(t) = "-" THEN -DigitsVal(body) ELSE DigitsVal(body))
        ELSE None

\* the unsigned decimal forms float() accepts: "12", "12.", "12.5", ".5"
\* (exponents are left out: no modelled text holds an "e" next to a digit)
IsDecimal(b) ==
    \/ AllDigits(b)
    \/ /\ HasChar(b, ".")
       /\ LET p == Split(b, ".")
          IN  /\ Len(p) = 2
              /\ p[1] = <<>> \/ AllDigits(p[1])
              /\ p[2] = <<>> \/ AllDigits(p[2])
              /\ p[1] # <<>> \/ p[2] # <<>>

DecimalVal(b) ==
    IF ~HasChar(b, ".") THEN Num(DigitsVal(b), 1)
    ELSE LET p == Split(b, ".")
         IN  Num(DigitsVal(p[1]) * Pow10(Len(p[2])) + DigitsVal(p[2]), Pow10(Len(p[2])))

\* float(s): surrounding whitespace, an optional sign, a decimal, "inf",
\* "infinity" or "nan" in any case
FloatParse(s) ==
    LET t == Strip(s)
        signed == t # <<>> /\ Head(t) \in {"-", "+"}
        neg == signed /\ Head(t) = "-"
        body == IF signed THEN Tail(t) ELSE t
        low == Lower(body)
    IN  IF low = <<"n", "a", "n">> THEN Some(NaN)
        ELSE IF low \in {<<"i", "n", "f">>, <<"i", "n", "f", "i", "n", "i", "t", "y">>}
             THEN Some(Inf(IF neg THEN -1 ELSE 1))
        ELSE IF IsDecimal(body)
             THEN LET v == DecimalVal(body)
                  IN  Some(IF neg THEN Num(-v.n, v.d) ELSE v)
        ELSE None

-----------------------------------------------------------------------------
(* helpers.py: parse_time_to_hours *)

Raised == [k |-> "raised", n |-> 0, d |-> 1]

\* the body of the try block: the float returned, or Raised
parse_time_try(time_str) ==
    LET t == Strip(Str(time_str))
    IN  IF HasChar(t, ":")
        THEN LET parts == Split(t, ":")
                 hours == IntParse(parts[1])
                 minutes == IF Len(parts) > 1 THEN IntParse(parts[2]) ELSE Some(0)
             IN  IF IsNone(hours) \/ IsNone(minutes) THEN Raised
                 ELSE Num(Val(hours) * 60 + Val(minutes), 60)
        ELSE LET f == FloatParse(t)
             IN  IF IsNone(f) THEN Raised ELSE Val(f)

\* faulty variant: the try block without its except clause
parse_time_to_hours_uncaught(time_str) ==
    IF IsNa(time_str) \/ IsEmptyStr(time_str) THEN Zero
    ELSE parse_time_try(time_str)

parse_time_to_hours(time_str) ==
    IF IsNa(time_str) \/ IsEmptyStr(time_str) THEN Zero
    ELSE LET r == parse_time_try(time_str)
         IN  IF r = Raised THEN Zero ELSE r

-----------------------------------------------------------------------------
(* helpers.py: hours_to_hm_format *)

\* The whole-minute durations k <= 250 for which the binary64 product
\* (k / 60) * 60 is below k, so that int() yields k - 1.
Binary64Short == {123, 245, 246, 247}

\* int(hours * 60) in binary64 arithmetic
total_minutes_of(hours) ==
    LET exact == Trunc(Num(hours.n * 60, hours.d))
    IN  IF (hours.n * 60) % hours.d = 0 /\ exact \in Binary64Short
        THEN exact - 1 ELSE exact

\* f"{m:02d}"
Pad2(m) == IF m >= 0 /\ m < 10 THEN <<"0">> \o IntToStr(m) ELSE IntToStr(m)

hours_to_hm_format(hours) ==
    IF hours.k = "nan" \/ FEq(hours, Zero) THEN <<"0", ":", "0", "0">>
    ELSE LET total_minutes == total_minutes_of(hours)
             h == total_minutes \div 60
             m == total_minutes % 60
         IN  IntToStr(h) \o <<":">> \o Pad2(m)

-----------------------------------------------------------------------------
(* helpers.py: extract_creative_percentage *)

\* 0 <= value <= 100
InPercentRange(value) == IsNum(value) /\ 0 <= value.n /\ value.n <= 100 * value.d

\* re.search(r"(\d+(?:\.\d+)?)", s): the matched text, or <<>> for no match
DigitRunEnd(s, i) ==
    CHOOSE j \in i..Len(s) :
        /\ \A k \in i..j : s[k] \in Digits
        /\ j = Len(s) \/ s[j + 1] \notin Digits

\* faulty variant: the digits of the last number of the text
LastNumber(s) ==
    IF \A i \in 1..Len(s) : s[i] \notin Digits THEN <<>>
    ELSE LET j == CHOOSE b \in 1..Len(s) :
                     s[b] \in Digits /\ \A c \in (b + 1)..Len(s) : s[c] \notin Digits
             i == CHOOSE a \in 1..j :
                     /\ \A k \in a..j : s[k] \in Digits
                     /\ a = 1 \/ s[a - 1] \notin Digits
         IN  SubSeq(s, i, j)

FirstNumber(s) ==
    IF \A i \in 1..Len(s) : s[i] \notin Digits THEN <<>>
    ELSE LET i == CHOOSE a \in 1..Len(s) :
                     s[a] \in Digits /\ \A b \in 1..(a - 1) : s[b] \notin Digits
             j == DigitRunEnd(s, i)
         IN  IF j + 2 <= Len(s) /\ s[j + 1] = "." /\ s[j + 2] \in Digits
             THEN SubSeq(s, i, DigitRunEnd(s, j + 2))
             ELSE SubSeq(s, i, j)

NoProcent == <<"N", "o", " ", "P", "r", "o", "c", "e", "n", "t">>
BrakDanych == <<"B", "r", "a", "k", " ", "d", "a", "n", "y", "c", "h">>

\* the "brak danych" test of lines 99-105
IsNoData(text_str) ==
    \/ text_str = <<>>
    \/ Contains(text_str, NoProcent)
    \/ Contains(text_str, BrakDanych)
    \/ Lower(text_str) = <<"n", "o", "n", "e">>
    \/ Lower(text_str) = <<"n", "a", "n">>

\* faulty variant: the regex branch without its range check
extract_creative_percentage_unchecked(text) ==
    IF IsNa(text) THEN None
    ELSE LET text_str == Strip(Str(text))
             direct == FloatParse(text_str)
             match == FirstNumber(text_str)
         IN  IF IsNoData(text_str) THEN None
             ELSE IF ~IsNone(direct) /\ InPercentRange(Val(direct))
                  THEN Some(Trunc(Val(direct)))
             ELSE IF match # <<>> THEN Some(Trunc(DecimalVal(match)))
             ELSE None

extract_creative_percentage(text) ==
    IF IsNa(text) THEN None
    ELSE LET text_str == Strip(Str(text))
             direct == FloatParse(text_str)
             match == FirstNumber(text_str)
         IN  IF IsNoData(text_str) THEN None
             ELSE IF ~IsNone(direct) /\ InPercentRange(Val(direct))
                  THEN Some(Trunc(Val(direct)))
             ELSE IF match # <<>> /\ InPercentRange(DecimalVal(match))
                  THEN Some(Trunc(DecimalVal(match)))
             ELSE None

-----------------------------------------------------------------------------
(* config.py: get_color_for_percent; export_utils.py:                      *)
(* ExcelStyles.get_fill_for_percent.  A PatternFill is given by its colour. *)

\* EXCEL_COLORS["red_fill"], ["yellow_fill"], ["green_fill"]
red_fill == "FFE6E6"
yellow_fill == "FFFFCC"
green_fill == "E6FFE6"

\* faulty variant: the bands are open at their upper ends
get_color_for_percent_open(percent) ==
    IF FLe(percent, Num(50, 1)) /\ ~FEq(percent, Num(50, 1)) THEN red_fill
    ELSE IF FLe(percent, Num(80, 1)) /\ ~FEq(percent, Num(80, 1)) THEN yellow_fill
    ELSE green_fill

get_color_for_percent(percent) ==
    IF FLe(percent, Num(50, 1)) THEN red_fill
    ELSE IF FLe(percent, Num(80, 1)) THEN yellow_fill
    ELSE green_fill

\* color_red, color_yellow, color_green of ExcelStyles
color_red == red_fill
color_yellow == yellow_fill
color_green == green_fill

\* pd.isna(percent) of a float
IsNaN(x) == x.k = "nan"

get_fill_for_percent(percent) ==
    IF IsNaN(percent) THEN None
    ELSE IF FLe(percent, Num(50, 1)) THEN Some(color_red)
    ELSE IF FLe(percent, Num(80, 1)) THEN Some(color_yellow)
    ELSE Some(color_green)

-----------------------------------------------------------------------------
(* config.py: ENCODING_FIXES; helpers.py: fix_polish_encoding.  A          *)
(* character outside printable ASCII is one element of a text, written as  *)
(* its code point, "U+0105" for a-ogonek.                                  *)

\* ENCODING_FIXES.items(), in dict order
ENCODING_FIXES ==
    <<
      [wrong |-> <<"U+00C4", "U+2026">>,
       correct |-> <<"U+0105">>],
      [wrong |-> <<"U+00C4">>,
       correct |-> <<"U+0104">>],
      [wrong |-> <<"U+00C4", "U+2021">>,
       correct |-> <<"U+0107">>],
      [wrong |-> <<"U+0106">>,
       correct |-> <<"U+0106">>],
      [wrong |-> <<"U+0139", "U+201A">>,
       correct |-> <<"U+0142">>],
      [wrong |-> <<"U+0139">>,
       correct |-> <<"U+0141">>],
      [wrong |-> <<"U+0139", "U+203A">>,
       correct |-> <<"U+015B">>],
      [wrong |-> <<"U+0139", "U+0161">>,
       correct |-> <<"U+015A">>],
      [wrong |-> <<"U+0139", "U+013D">>,
       correct |-> <<"U+017C">>],
      [wrong |-> <<"U+0139", "U+00BB">>,
       correct |-> <<"U+017B">>],
      [wrong |-> <<"U+0139", "U+015F">>,
       correct |-> <<"U+017A">>],
      [wrong |-> <<"U+0139", "U+0105">>,
       correct |-> <<"U+0179">>],
      [wrong |-> <<"U+0102", "U+00B3">>,
       correct |-> <<"U+00F3">>],
      [wrong |-> <<"U+0102", "U+0022">>,
       correct |-> <<"U+00D3">>],
      [wrong |-> <<"U+0139", "U+201E">>,
       correct |-> <<"U+0144">>],
      [wrong |-> <<"U+0139", "U+0192">>,
       correct |-> <<"U+0143">>],
      [wrong |-> <<"U+00C4", "U+2122">>,
       correct |-> <<"U+0119">>],
      [wrong |-> <<"U+00C4", "U+015B">>,
       correct |-> <<"U+0118">>],
      [wrong |-> <<"m", "o", "U+0139", "U+013D", "l", "i", "w", "o", "U+0139", "U+203A", "U+00C4", "U+2021">>,
       correct |-> <<"m", "o", "U+017C", "l", "i", "w", "o", "U+015B", "U+0107">>],
      [wrong |-> <<"d", "o", "d", "a", "U+00C4", "U+2021">>,
       correct |-> <<"d", "o", "d", "a", "U+0107">>],
      [wrong |-> <<"h", "i", "p", "e", "r", "U+0139", "U+201A", "U+00C4", "U+2026", "c", "z", "e">>,
       correct |-> <<"h", "i", "p", "e", "r", "U+0142", "U+0105", "c", "z", "e">>],
      [wrong |-> <<"c", "z", "c", "i", "o", "n", "k", "i", "/", "t", "U+0139", "U+201A", "a">>,
       correct |-> <<"c", "z", "c", "i", "o", "n", "k", "i", "/", "t", "U+0142", "a">>]
    >>

\* s.replace(wrong, correct): the occurrences are replaced from the left
RECURSIVE Replace(_, _, _)
Replace(s, wrong, correct) ==
    IF Len(s) < Len(wrong) THEN s
    ELSE IF SubSeq(s, 1, Len(wrong)) = wrong
    THEN correct \o Replace(SubSeq(s, Len(wrong) + 1, Len(s)), wrong, correct)
    ELSE <<Head(s)>> \o Replace(Tail(s), wrong, correct)

\* the loop of lines 148-149 from the i-th entry on
RECURSIVE ApplyFixes(_, _)
ApplyFixes(result, i) ==
    IF i > Len(ENCODING_FIXES) THEN result
    ELSE ApplyFixes(Replace(result, ENCODING_FIXES[i].wrong, ENCODING_FIXES[i].correct),
                    i + 1)

fix_polish_encoding(text) ==
    IF IsNa(text) \/ text.kind # "text" THEN text
    ELSE Text(ApplyFixes(text.s, 1))

\* the cells repaired: every key of the table, a text with nothing to
\* repair, a number and an empty cell
EncodingCells ==
    {Text(ENCODING_FIXES[i].wrong) : i \in 1..Len(ENCODING_FIXES)}
        \cup {Text(<<"J", "a", "n">>), IntCell(5), NullCell}

-----------------------------------------------------------------------------
(* The parsers applied to one cell: the cell is drawn in PureInit, an       *)
(* action applies the function.                                             *)

Strings(chars, n) == UNION {[1..m -> chars] : m \in 0..n}

TimeChars == {"0", "1", "3", ":", "-", ".", " "}
PctChars == {"0", "1", "5", ".", "-", "%", " "}

TimeSamples ==
    {<<"1", "0", ":", "0", "0">>, <<"0", ":", "0", "5">>, <<"1", "2", "0", ":", "3", "0">>, <<"1", ":", "3", "0", ":", "4", "5">>, <<"-", "1", ":", "3", "0">>, <<"i", "n", "f">>, <<"a", "b", "c">>}

PctSamples ==
    {<<"9", "0", "%">>,
     <<"8", "0", ".", "7">>,
     <<"1", "0", "0", ".", "5">>,
     <<"N", "o", " ", "P", "r", "o", "c", "e", "n", "t", " ", "5", "0">>,
     <<"B", "r", "a", "k", " ", "d", "a", "n", "y", "c", "h">>,
     <<"N", "o", "n", "e">>,
     <<"N", "a", "N">>,
     <<"o", "k", ".", " ", "1", "5", " ", "%">>,
     <<"1", "5", "0", " ", "5", "0">>}

TimeCells ==
    {NullCell} \cup {IntCell(n) : n \in -1..2}
        \cup {Text(s) : s \in Strings(TimeChars, MaxLen) \cup TimeSamples}

PctCells ==
    {NullCell} \cup {IntCell(n) : n \in {-5, 0, 90, 100, 150}}
        \cup {Text(s) : s \in Strings(PctChars, MaxLen) \cup PctSamples}

\* the binary64 value nearest k/60 hours, k whole minutes; and NaN
Durations == {Num(k, 60) : k \in 0..MaxMinutes} \cup {NaN}

\* percentages in steps of one half, from -1 up; NaN; inf
Percents == {Num(k, 2) : k \in -2..(2 * MaxPercent)} \cup {NaN, Inf(1)}

ScanIdle ==
    /\ rows = <<>>
    /\ current_user = None
    /\ current_task = 0
    /\ report_data = <<>>
    /\ scan = "idle"
    /\ columns = {}

WorklogIdle ==
    /\ wl_raw = <<>>
    /\ df_processed = <<>>
    /\ df_agg = <<>>
    /\ wl_pc = "idle"
    /\ df_worklogs_by_month = <<>>

RankIdle ==
    /\ tasks = <<>>
    /\ summary = [top_performer |-> [kind |-> "none", s |-> <<>>, n |-> 0],
                  top_performer_score |-> Zero,
                  productivity_table |-> <<>>,
                  dominance |-> <<>>]
    /\ top_tasks = [returned |-> FALSE, rows |-> <<>>]
    /\ most_creative = [returned |-> FALSE, rows |-> <<>>]
    /\ stats = [person_name |-> [kind |-> "none", s |-> <<>>, n |-> 0],
                creative_score |-> Zero]
    /\ rank_pc = "idle"

\* no worklog file, df_worklogs_by_month = None and months_available = []
NoFile == [kind |-> "none", columns |-> {}, rows |-> <<>>]

LoadIdle ==
    /\ worklogs_file = NoFile
    /\ months_available = <<>>
    /\ worklog_error = FALSE
    /\ tabs = {}

MainIdle ==
    /\ sheet_columns = {}
    /\ df_raw = <<>>
    /\ issues = <<>>
    /\ warnings = <<>>
    /\ df_result = <<>>
    /\ main_pc = "idle"
    /\ LoadIdle

CatIdle ==
    /\ category_table = <<>>
    /\ categories_data = <<>>
    /\ cat_pc = "idle"

PureInit ==
    /\ pc = "call"
    /\ res = None
    /\ \/ fn = "parse_time_to_hours" /\ arg \in TimeCells
       \/ fn = "extract_creative_percentage" /\ arg \in PctCells
       \/ fn = "hours_to_hm_format" /\ arg \in Durations
       \/ fn = "get_color_for_percent" /\ arg \in Percents
       \/ fn = "get_fill_for_percent" /\ arg \in Percents
       \/ fn = "fix_polish_encoding" /\ arg \in EncodingCells
    /\ ScanIdle
    /\ WorklogIdle
    /\ RankIdle
    /\ MainIdle
    /\ CatIdle

CallParseTime ==
    /\ pc = "call"
    /\ fn = "parse_time_to_hours"
    /\ res' = parse_time_to_hours(arg)
    /\ pc' = "done"
    /\ UNCHANGED <<fn, arg, scanVars, wlVars, rankVars, mainVars, catVars>>

CallExtractPercent ==
    /\ pc = "call"
    /\ fn = "extract_creative_percentage"
    /\ res' = extract_creative_percentage(arg)
    /\ pc' = "done"
    /\ UNCHANGED <<fn, arg, scanVars, wlVars, rankVars, mainVars, catVars>>

CallFormat ==
    /\ pc = "call"
    /\ fn = "hours_to_hm_format"
    /\ res' = hours_to_hm_format(arg)
    /\ pc' = "formatted"
    /\ UNCHANGED <<fn, arg, scanVars, wlVars, rankVars, mainVars, catVars>>

\* parse_time_to_hours(hours_to_hm_format(h))
ParseBack ==
    /\ pc = "formatted"
    /\ res' = parse_time_to_hours(Text(res))
    /\ pc' = "done"
    /\ UNCHANGED <<fn, arg, scanVars, wlVars, rankVars, mainVars, catVars>>

CallColor ==
    /\ pc = "call"
    /\ fn = "get_color_for_percent"
    /\ res' = Some(get_color_for_percent(arg))
    /\ pc' = "done"
    /\ UNCHANGED <<fn, arg, scanVars, wlVars, rankVars, mainVars, catVars>>

CallFill ==
    /\ pc = "call"
    /\ fn = "get_fill_for_percent"
    /\ res' = get_fill_for_percent(arg)
    /\ pc' = "done"
    /\ UNCHANGED <<fn, arg, scanVars, wlVars, rankVars, mainVars, catVars>>

\* df[col].apply(fix_polish_encoding), one cell
CallFixEncoding ==
    /\ pc = "call"
    /\ fn = "fix_polish_encoding"
    /\ res' = fix_polish_encoding(arg)
    /\ pc' = "done"
    /\ UNCHANGED <<fn, arg, scanVars, wlVars, rankVars, mainVars, catVars>>

PureNext ==
    \/ CallFixEncoding
    \/ CallParseTime
    \/ CallExtractPercent
    \/ CallFormat
    \/ ParseBack
    \/ CallColor
    \/ CallFill

SpecPure == PureInit /\ [][PureNext]_vars

-----------------------------------------------------------------------------
(* app.py: process_excel_data, one action per branch of the loop body *)

PyNone == [kind |-> "none", s |-> <<>>, n |-> 0]

\* bool(x) of a cell value: None, "" and 0 are false, NaN is true
Truthy(c) ==
    \/ c.kind = "null"
    \/ c.kind = "text" /\ c.s # <<>>
    \/ c.kind = "int" /\ c.n # 0

\* (creative_percent / 100) * time_hours
PercentOf(creative_percent, time_hours) ==
    IF IsNum(time_hours)
    THEN Num(creative_percent * time_hours.n, 100 * time_hours.d)
    ELSE time_hours

\* an empty cell is read as NaN, a numeric cell as a number
PersonCells == {NullCell, IntCell(0), Text(<<"J", "a", "n">>), Text(<<"E", "w", "a">>)}
TaskCells == {Text(<<"T", "a", "s", "k", " ", "A">>)}
\* (Key, Total Time Spent) of a level-1 row
TaskEntries ==
    {<<Text(<<"K", "E", "Y", "-", "1">>), Text(<<"1", "0", ":", "0", "0">>)>>,
     <<NullCell, Text(<<"-", "1", ":", "3", "0">>)>>,
     <<Text(<<"K", "E", "Y", "-", "1">>), Text(<<"a", "b", "c">>)>>}
PercentCells ==
    {NullCell, Text(<<"9", "0">>), Text(<<"5", "0", "%">>), Text(<<"1", "5", "0">>)}

Row(level, description, key, time_spent) ==
    [Level |-> level, description |-> description, Key |-> key,
     time_spent |-> time_spent]

\* the rows a report sheet with the given optional columns can hold: Key and
\* Total Time Spent are filled on level-1 rows only
ReportRows(cols) ==
    {Row(0, d, NullCell, NullCell) : d \in PersonCells}
        \cup {Row(1, d, e[1], e[2]) :
                d \in TaskCells,
                e \in IF cols = {} THEN {<<NullCell, NullCell>>} ELSE TaskEntries}
        \cup {Row(2, d, NullCell, NullCell) : d \in PercentCells}
        \cup {Row(3, NullCell, NullCell, NullCell)}

\* row.get("Key", "") and row.get("Total Time Spent", "0:00")
RowKey(row) == IF "Key" \in columns THEN row.Key ELSE Text(<<>>)
RowTimeSpent(row) ==
    IF "Total Time Spent" \in columns THEN row.time_spent ELSE Text(<<"0", ":", "0", "0">>)

\* the dict built for a level-1 row
NewTask(row) ==
    [person |-> current_user,
     task |-> row.description,
     key |-> IF ~IsNa(RowKey(row)) THEN RowKey(row) ELSE Text(<<>>),
     time_spent |-> RowTimeSpent(row),
     time_hours |-> parse_time_to_hours(RowTimeSpent(row)),
     creative_percent |-> None,
     creative_hours |-> Zero]

\* faulty variant: creative_percent is stored, creative_hours is not recomputed
WithPercentOnly(task, creative_percent) ==
    [task EXCEPT !.creative_percent = Some(creative_percent)]

\* faulty variant: the assignments also overwrite time_hours
WithPercentOfTime(task, creative_percent) ==
    [task EXCEPT !.creative_percent = Some(creative_percent),
                 !.creative_hours = PercentOf(creative_percent, task.time_hours),
                 !.time_hours = PercentOf(creative_percent, task.time_hours)]

\* the assignments of lines 89-92 to the dict current_task refers to
WithPercent(task, creative_percent) ==
    [task EXCEPT !.creative_percent = Some(creative_percent),
                 !.creative_hours = PercentOf(creative_percent, task.time_hours)]

ScanInit ==
    /\ rows = <<>>
    /\ current_user = PyNone
    /\ current_task = 0
    /\ report_data = <<>>
    /\ scan = "loop"
    /\ columns \in {{}, {"Key", "Total Time Spent"}}

Iterating == scan = "loop" /\ Len(rows) < MaxRows

\* level == 0
ReadPersonRow ==
    /\ Iterating
    /\ \E row \in ReportRows(columns) :
        /\ row.Level = 0
        /\ rows' = Append(rows, row)
        /\ current_user' = row.description
    /\ UNCHANGED <<current_task, report_data, scan, columns, pureVars, wlVars,
                   rankVars, mainVars, catVars>>

\* level == 1 and current_user
ReadTaskRow ==
    /\ Iterating
    /\ \E row \in ReportRows(columns) :
        /\ row.Level = 1
        /\ Truthy(current_user)
        /\ rows' = Append(rows, row)
        /\ report_data' = Append(report_data, NewTask(row))
        /\ current_task' = Len(report_data) + 1
    /\ UNCHANGED <<current_user, scan, columns, pureVars, wlVars,
                   rankVars, mainVars, catVars>>

\* level == 2 and current_task is not None and pd.notna(description)
ReadPercentRow ==
    /\ Iterating
    /\ \E row \in ReportRows(columns) :
        /\ row.Level = 2
        /\ current_task # 0
        /\ ~IsNa(row.description)
        /\ rows' = Append(rows, row)
        /\ LET creative_percent == extract_creative_percentage(row.description)
           IN  report_data' =
                 IF creative_percent # None
                 THEN [report_data EXCEPT ![current_task] =
                           WithPercent(@, Val(creative_percent))]
                 ELSE report_data
    /\ UNCHANGED <<current_user, current_task, scan, columns, pureVars, wlVars,
                   rankVars, mainVars, catVars>>

\* no branch of the if/elif chain applies
SkipRow ==
    /\ Iterating
    /\ \E row \in ReportRows(columns) :
        /\ row.Level # 0
        /\ ~(row.Level = 1 /\ Truthy(current_user))
        /\ ~(row.Level = 2 /\ current_task # 0 /\ ~IsNa(row.description))
        /\ rows' = Append(rows, row)
    /\ UNCHANGED <<current_user, current_task, report_data, scan, columns,
                   pureVars, wlVars,
                   rankVars, mainVars, catVars>>

\* the loop ends; df_result = pd.DataFrame(report_data)
ReturnReport ==
    /\ scan = "loop"
    /\ scan' = "returned"
    /\ UNCHANGED <<rows, current_user, current_task, report_data, columns,
                   pureVars, wlVars,
                   rankVars, mainVars, catVars>>

PureIdle ==
    /\ fn = "none"
    /\ arg = NullCell
    /\ res = None
    /\ pc = "idle"

-----------------------------------------------------------------------------
(* Float sums *)

RECURSIVE GCD(_, _)
GCD(a, b) == IF b = 0 THEN a ELSE GCD(b, a % b)

Abs(n) == IF n < 0 THEN -n ELSE n

\* the rational n/d in lowest terms
Norm(n, d) == LET g == GCD(Abs(n), d) IN Num(n \div g, d \div g)

\* x + y
FAdd(x, y) == Norm(x.n * y.d + y.n * x.d, x.d * y.d)

\* Series.sum()
RECURSIVE FSum(_)
FSum(xs) == IF xs = <<>> THEN Zero ELSE FAdd(Head(xs), FSum(Tail(xs)))

-----------------------------------------------------------------------------
(* app.py: process_worklogs_data (the same steps as test_aggregation.py    *)
(* lines 21-38), and test_aggregation.py: the aggregation of lines 45-55   *)

Date(y, m) == [kind |-> "date", s |-> <<>>, n |-> 12 * y + (m - 1)]

Authors == {Text(<<"J", "a", "n">>), Text(<<"E", "w", "a">>)}
IssueKeys == {NullCell, Text(<<>>), Text(<<"K", "1">>)}
\* (Time Spent, Procent pracy tworczej) of a worklog entry
Efforts ==
    {<<Text(<<"1", "0", ":", "0", "0">>), Text(<<"9", "0">>)>>,
     <<Text(<<"5", ":", "0", "0">>), Text(<<"5", "0">>)>>,
     <<Text(<<"5", ":", "0", "0">>), NullCell>>}

\* Start Date cells next to the date of December 2025: a later month, a
\* text that is no date, an empty cell
OtherStartDates == {Date(2026, 1), Text(<<"a", "b", "c">>), NullCell}

WorklogRows ==
    {[Author |-> a, IssueSummary |-> Text(<<"T", "a", "s", "k">>), IssueKey |-> k,
      TimeSpent |-> e[1], Percent |-> e[2], StartDate |-> Date(2025, 12)] :
        a \in Authors, k \in IssueKeys, e \in Efforts}
    \cup
    {[Author |-> Text(<<"J", "a", "n">>), IssueSummary |-> Text(<<"T", "a", "s", "k">>),
      IssueKey |-> Text(<<"K", "1">>), TimeSpent |-> Text(<<"1", "0", ":", "0", "0">>),
      Percent |-> Text(<<"9", "0">>), StartDate |-> d] : d \in OtherStartDates}

\* creative_percent.fillna(0)
FillNa0(o) == IF o = None THEN 0 ELSE Val(o)

NaT == NullCell

\* pd.to_datetime(x, errors="coerce") of a date cell, an empty cell or a text
\* that is no date
ToDatetime(cell) == IF cell.kind = "date" THEN cell ELSE NaT

\* faulty variant: NaT is formatted as the text "NaT"
MonthStrOfNaT(date) ==
    IF date.kind = "date"
    THEN Some(NatToStr(date.n \div 12) \o <<"-">> \o Pad2((date.n % 12) + 1))
    ELSE Some(<<"N", "a", "T">>)

\* .dt.strftime("%Y-%m"): the text "YYYY-MM", NaN (None) for NaT
MonthStr(date) ==
    IF date.kind = "date"
    THEN Some(NatToStr(date.n \div 12) \o <<"-">> \o Pad2((date.n % 12) + 1))
    ELSE None

\* one row of the returned table
Normalised(row) ==
    LET time_hours == parse_time_to_hours(row.TimeSpent)
        creative_percent == extract_creative_percentage(row.Percent)
    IN  [person |-> row.Author,
         task |-> row.IssueSummary,
         key |-> row.IssueKey,
         time_hours |-> time_hours,
         creative_percent |-> creative_percent,
         creative_hours |-> PercentOf(FillNa0(creative_percent), time_hours),
         start_date |-> ToDatetime(row.StartDate),
         month_str |-> MonthStr(ToDatetime(row.StartDate))]

process_worklogs_data(df) == [i \in 1..Len(df) |-> Normalised(df[i])]

\* order of the characters that occur in issue keys and person names
CharCode(c) ==
    CASE c = "-" -> 45 [] c \in Digits -> 48 + DigitVal(c) [] c = "K" -> 75
      [] c = "E" -> 69 [] c = "J" -> 74 [] c = "P" -> 80 [] c = "a" -> 97 [] c = "n" -> 110
      [] c = "w" -> 119 [] OTHER -> 0

\* a < b on str
RECURSIVE StrLess(_, _)
StrLess(a, b) ==
    IF b = <<>> THEN FALSE
    ELSE IF a = <<>> THEN TRUE
    ELSE IF Head(a) # Head(b) THEN CharCode(Head(a)) < CharCode(Head(b))
    ELSE StrLess(Tail(a), Tail(b))

\* the group keys in groupby's order (sort=True)
RECURSIVE SortedKeys(_)
SortedKeys(ks) ==
    IF ks = {} THEN <<>>
    ELSE LET least == CHOOSE k \in ks : \A o \in ks \ {k} : StrLess(k.s, o.s)
         IN  <<least>> \o SortedKeys(ks \ {least})

Column(df, name) == [i \in 1..Len(df) |-> df[i][name]]

\* faulty variant: "sum" in place of "first" for creative_percent
RECURSIVE SumNotNull(_)
SumNotNull(xs) ==
    IF xs = <<>> THEN None
    ELSE LET rest == SumNotNull(Tail(xs))
         IN  IF Head(xs) = None THEN rest
             ELSE IF rest = None THEN Head(xs)
             ELSE Some(Val(Head(xs)) + Val(rest))

\* GroupBy.first(): the first non-null value of the group
RECURSIVE FirstNotNull(_)
FirstNotNull(xs) ==
    IF xs = <<>> THEN None
    ELSE IF Head(xs) # None THEN Head(xs)
    ELSE FirstNotNull(Tail(xs))

\* lambda x: x.iloc[0] if len(x) > 0 else ""
FirstPerson(group) == IF Len(group) > 0 THEN group[1].person ELSE Text(<<>>)

\* the rows of one group, in table order
GroupOf(df, key) == SelectSeq(df, LAMBDA r : r.key = key)

\* groupby(["key"]) with the default dropna=True: rows whose key is NaN
\* belong to no group
GroupKeys(df) == {df[i].key : i \in {j \in 1..Len(df) : ~IsNa(df[j].key)}}

AggregatedRow(df, key) ==
    LET group == GroupOf(df, key)
    IN  [person |-> FirstPerson(group),
         task |-> group[1].task,
         key |-> key,
         time_hours |-> FSum(Column(group, "time_hours")),
         creative_percent |-> FirstNotNull(Column(group, "creative_percent")),
         creative_hours |-> FSum(Column(group, "creative_hours"))]

\* df_final of test_aggregation.py
Aggregate(df) ==
    LET keys == SortedKeys(GroupKeys(df))
    IN  [i \in 1..Len(keys) |-> AggregatedRow(df, keys[i])]

WorklogInit ==
    /\ wl_raw = <<>>
    /\ df_processed = <<>>
    /\ df_agg = <<>>
    /\ wl_pc = "read"
    /\ df_worklogs_by_month = <<>>

\* pd.read_excel: one more row of the worklog sheet
ReadWorklogRow ==
    /\ wl_pc = "read"
    /\ Len(wl_raw) < MaxWorklogs
    /\ \E row \in WorklogRows : wl_raw' = Append(wl_raw, row)
    /\ UNCHANGED <<df_processed, df_agg, wl_pc, df_worklogs_by_month, pureVars,
                   scanVars, rankVars, mainVars, catVars>>

ProcessWorklogs ==
    /\ wl_pc = "read"
    /\ df_processed' = process_worklogs_data(wl_raw)
    /\ wl_pc' = "processed"
    /\ UNCHANGED <<wl_raw, df_agg, df_worklogs_by_month, pureVars, scanVars,
                   rankVars, mainVars, catVars>>

AggregateWorklogs ==
    /\ wl_pc = "processed"
    /\ df_agg' = Aggregate(df_processed)
    /\ wl_pc' = "aggregated"
    /\ UNCHANGED <<wl_raw, df_processed, df_worklogs_by_month, pureVars,
                   scanVars, rankVars, mainVars, catVars>>

\* the keys of groupby("month_str"): NaN belongs to no group
MonthKeys(df) ==
    {Val(df[i].month_str) : i \in {j \in 1..Len(df) : df[j].month_str # None}}

\* the keys in groupby's order; the characters of "YYYY-MM" are ordered by
\* CharCode
RECURSIVE SortedMonths(_)
SortedMonths(ms) ==
    IF ms = {} THEN <<>>
    ELSE LET least == CHOOSE m \in ms : \A o \in ms \ {m} : StrLess(m, o)
         IN  <<least>> \o SortedMonths(ms \ {least})

\* the index labels of the rows of one month group, in table order
MonthGroup(df, month) ==
    SelectSeq([i \in 1..Len(df) |-> i], LAMBDA i : df[i].month_str = Some(month))

\* {month: group.copy() for month, group in df_worklogs.groupby("month_str")};
\* a group is given by the index labels of its rows
GroupedByMonth(df) ==
    LET months == SortedMonths(MonthKeys(df))
    IN  [g \in 1..Len(months) |->
            [month |-> months[g], index |-> MonthGroup(df, months[g])]]

\* main, lines 331-352: the month groups, when the table is not empty
GroupByMonth ==
    /\ wl_pc = "processed"
    /\ df_worklogs_by_month' =
           IF df_processed # <<>> THEN GroupedByMonth(df_processed) ELSE <<>>
    /\ wl_pc' = "grouped"
    /\ UNCHANGED <<wl_raw, df_processed, df_agg, pureVars, scanVars, rankVars,
                   mainVars, catVars>>

-----------------------------------------------------------------------------
(* helpers.py: get_top_task_per_person and the top performer of            *)
(* generate_executive_summary; app.py: the leaderboard of the report tab.  *)
(* The functions receive a table of task records as process_excel_data     *)
(* builds them.                                                            *)

\* the dict process_excel_data builds for a level-1 row
TaskDict(person, task, key, time_spent) ==
    [person |-> person,
     task |-> task,
     key |-> IF ~IsNa(key) THEN key ELSE Text(<<>>),
     time_spent |-> time_spent,
     time_hours |-> parse_time_to_hours(time_spent),
     creative_percent |-> None,
     creative_hours |-> Zero]

\* current_user values that pass "and current_user": NaN and the names
People == {NullCell, Text(<<"J", "a", "n">>), Text(<<"E", "w", "a">>)}

\* (Total Time Spent of the level-1 row, description of its level-2 row)
ScoredEfforts ==
    {<<Text(<<"1", "0", ":", "0", "0">>), Text(<<"5", "0", "%">>)>>,
     <<Text(<<"5", ":", "0", "0">>), Text(<<"9", "0">>)>>,
     <<Text(<<"1", "0", ":", "0", "0">>), Text(<<"0">>)>>,
     <<Text(<<"5", ":", "0", "0">>), NullCell>>,
     <<Text(<<"-", "1", ":", "3", "0">>), Text(<<"9", "0">>)>>}

\* the records a level-1 row and its level-2 row leave in report_data
TaskRecords ==
    {LET task == TaskDict(p, Text(<<"T", "a", "s", "k", " ", "A">>),
                          Text(<<"K", "E", "Y", "-", "1">>), e[1])
         creative_percent == extract_creative_percentage(e[2])
     IN  IF creative_percent # None
         THEN WithPercent(task, Val(creative_percent))
         ELSE task : p \in People, e \in ScoredEfforts}

\* x > y on floats
FGt(x, y) == FLe(y, x) /\ ~FEq(x, y)

\* creative_percent.notna()
HasPercent(r) == r.creative_percent # None

\* creative_hours * creative_percent / 100 of a row with a percentage
task_score(r) ==
    LET creative_hours == r.creative_hours
    IN  IF IsNum(creative_hours)
        THEN Norm(creative_hours.n * Val(r.creative_percent), creative_hours.d * 100)
        ELSE creative_hours

\* df["person"].unique()
UniquePersons(df) == {df[i].person : i \in 1..Len(df)}

\* df[df["person"] == person]: NaN equals nothing
PersonData(df, person) ==
    SelectSeq(df, LAMBDA r : ~IsNa(person) /\ r.person = person)

TaskScores(df) == [i \in 1..Len(df) |-> task_score(df[i])]

\* faulty variant: the score of the person's last task with a percentage
person_total_score_of_last(df, person) ==
    LET person_creative == SelectSeq(PersonData(df, person), HasPercent)
    IN  IF person_creative # <<>>
        THEN task_score(person_creative[Len(person_creative)]) ELSE Zero

\* person_total_scores[person]
person_total_score(df, person) ==
    LET person_creative == SelectSeq(PersonData(df, person), HasPercent)
    IN  IF person_creative # <<>> THEN FSum(TaskScores(person_creative)) ELSE Zero

\* nlargest(1, column).iloc[0] over the column's values: the position of the
\* first largest value
ArgLargest(values) ==
    CHOOSE i \in 1..Len(values) :
        /\ \A j \in 1..Len(values) : FLe(values[j], values[i])
        /\ \A j \in 1..(i - 1) : ~FEq(values[j], values[i])

\* the dict appended to most_creative_tasks for one person (the same lines
\* are repeated in app.py 427-461)
BestTask(person_data) ==
    LET creative_data ==
            SelectSeq(person_data, LAMBDA r : FGt(r.creative_hours, Zero))
        best_task ==
            IF creative_data # <<>>
            THEN creative_data[ArgLargest(TaskScores(creative_data))]
            ELSE person_data[ArgLargest(Column(person_data, "time_hours"))]
    IN  [person |-> best_task.person,
         task |-> best_task.task,
         key |-> best_task.key,
         time_hours |-> best_task.time_hours,
         creative_percent |-> best_task.creative_percent,
         creative_hours |-> best_task.creative_hours,
         score |-> IF creative_data # <<>> THEN task_score(best_task) ELSE Zero,
         has_creative_data |-> creative_data # <<>>]

\* the same dict with the key "total_score"
WithTotal(row, total_score) ==
    [person |-> row.person,
     task |-> row.task,
     key |-> row.key,
     time_hours |-> row.time_hours,
     creative_percent |-> row.creative_percent,
     creative_hours |-> row.creative_hours,
     score |-> row.score,
     total_score |-> total_score,
     has_creative_data |-> row.has_creative_data]

RECURSIVE InsertAsc(_, _, _)
InsertAsc(r, rs, by) ==
    IF rs = <<>> THEN <<r>>
    ELSE IF FLe(r[by], rs[1][by]) THEN <<r>> \o rs
    ELSE <<rs[1]>> \o InsertAsc(r, Tail(rs), by)

RECURSIVE InsertDesc(_, _, _)
InsertDesc(r, rs, by) ==
    IF rs = <<>> THEN <<r>>
    ELSE IF FLe(rs[1][by], r[by]) THEN <<r>> \o rs
    ELSE <<rs[1]>> \o InsertDesc(r, Tail(rs), by)

\* faulty variant: ascending=True
RECURSIVE SortAscending(_, _)
SortAscending(rs, by) ==
    IF rs = <<>> THEN <<>>
    ELSE InsertAsc(Head(rs), SortAscending(Tail(rs), by), by)

\* sort_values(by=by, ascending=False); tables this short are sorted by
\* insertion, equal values keep their order
RECURSIVE SortDescending(_, _)
SortDescending(rs, by) ==
    IF rs = <<>> THEN <<>>
    ELSE InsertDesc(Head(rs), SortDescending(Tail(rs), by), by)

NoTable == [returned |-> FALSE, rows |-> <<>>]
Returned(rs) == [returned |-> TRUE, rows |-> rs]

\* sorted(df["person"].unique()) raises TypeError when a NaN stands among
\* names, and a lone NaN selects no rows, so that .iloc[0] raises IndexError
PersonLoopRaises(df) == \E p \in UniquePersons(df) : IsNa(p)

get_top_task_per_person(df) ==
    IF PersonLoopRaises(df) THEN NoTable
    ELSE LET persons == SortedKeys(UniquePersons(df))
             most_creative_tasks ==
                 [i \in 1..Len(persons) |->
                     WithTotal(BestTask(PersonData(df, persons[i])),
                               person_total_score(df, persons[i]))]
         IN  Returned(SortDescending(most_creative_tasks, "total_score"))

\* app.py: most_creative_df_sorted
most_creative_df_sorted(df) ==
    IF PersonLoopRaises(df) THEN NoTable
    ELSE LET persons == SortedKeys(UniquePersons(df))
             most_creative_tasks ==
                 [i \in 1..Len(persons) |-> BestTask(PersonData(df, persons[i]))]
         IN  Returned(SortDescending(most_creative_tasks, "score"))

\* the initial summary: top_performer, top_performer_score, productivity_table
\* (None) and the person named by the hour-dominance insight (none, no
\* insight)
NoPerformer ==
    [top_performer |-> PyNone, top_performer_score |-> Zero,
     productivity_table |-> <<>>, dominance |-> None]

\* groupby("person")["task_score"].sum(): one entry per non-NaN person, in
\* the order of the names
ScoreByPerson(df_with_score) ==
    LET persons == SortedKeys({p \in UniquePersons(df_with_score) : ~IsNa(p)})
    IN  [i \in 1..Len(persons) |->
            [person |-> persons[i],
             task_score |-> FSum(TaskScores(PersonData(df_with_score, persons[i])))]]

\* df["person"].unique(): the persons in order of first appearance
RECURSIVE UniqueInOrder(_)
UniqueInOrder(df) ==
    IF df = <<>> THEN <<>>
    ELSE LET before == UniqueInOrder(SubSeq(df, 1, Len(df) - 1))
             person == df[Len(df)].person
         IN  IF \E i \in 1..Len(before) : before[i] = person
             THEN before ELSE Append(before, person)

\* the dict appended to productivity_data for one person: "Osoba",
\* "Lacznie [h]" (total_hours) and "Creative Score" (creative_score, NaN in
\* the table for None)
ProductivityRow(df, person) ==
    LET person_df == PersonData(df, person)
        person_creative == SelectSeq(person_df, HasPercent)
    IN  [Osoba |-> person,
         total_hours |-> FSum(Column(person_df, "time_hours")),
         creative_score |-> IF person_creative # <<>>
                            THEN FSum(TaskScores(person_creative)) ELSE NaN]

\* faulty variant: the table is sorted by "Lacznie [h]"
SortedByHours(productivity_data) ==
    SortDescending(productivity_data, "total_hours")

\* prod_df.sort_values("Creative Score", ascending=False): NaN comes last
SortedByCreativeScore(productivity_data) ==
    SortDescending(SelectSeq(productivity_data, LAMBDA r : ~IsNaN(r.creative_score)),
                   "creative_score")
        \o SelectSeq(productivity_data, LAMBDA r : IsNaN(r.creative_score))

\* x - y and x * y on numbers
FSub(x, y) == Norm(x.n * y.d - y.n * x.d, x.d * y.d)
FMul(x, y) == Norm(x.n * y.n, x.d * y.d)

\* lines 609-618: the person of prod_df.iloc[0] when that row's hours exceed
\* avg_hours + std_hours (the sample standard deviation, NaN for one row);
\* h > avg + std is decided as h - avg > 0 and (h - avg)^2 > std^2
HourDominance(prod_df) ==
    LET n == Len(prod_df)
        hours == Column(prod_df, "total_hours")
        avg_hours == Norm(FSum(hours).n, FSum(hours).d * n)
        deviation(i) == FSub(hours[i], avg_hours)
        variance ==
            LET squares == FSum([i \in 1..n |-> FMul(deviation(i), deviation(i))])
            IN  Norm(squares.n, squares.d * (n - 1))
        max_hours_person == prod_df[1]
    IN  IF /\ n >= 2
           /\ \A i \in 1..n : IsNum(hours[i])
           /\ FGt(deviation(1), Zero)
           /\ FGt(FMul(deviation(1), deviation(1)), variance)
        THEN Some(max_hours_person.Osoba)
        ELSE None

generate_executive_summary(df) ==
    IF df = <<>> THEN NoPerformer
    ELSE LET df_with_score == SelectSeq(df, HasPercent)
             person_creative_score ==
                 SortDescending(ScoreByPerson(df_with_score), "task_score")
             persons == UniqueInOrder(df)
             prod_df ==
                 SortedByCreativeScore(
                     [i \in 1..Len(persons) |-> ProductivityRow(df, persons[i])])
         IN  [top_performer |->
                  IF person_creative_score # <<>>
                  THEN person_creative_score[1].person ELSE PyNone,
              top_performer_score |->
                  IF person_creative_score # <<>>
                  THEN person_creative_score[1].task_score ELSE Zero,
              productivity_table |-> prod_df,
              dominance |-> HourDominance(prod_df)]

\* the entries "creative_score" of the initial stats, with the person asked for
NoStats == [person_name |-> PyNone, creative_score |-> Zero]

\* faulty variant: the score of the person's best task
creative_score_of_best(df, person_name) ==
    LET person_creative == SelectSeq(PersonData(df, person_name), HasPercent)
    IN  IF person_creative # <<>>
        THEN task_score(person_creative[ArgLargest(TaskScores(person_creative))])
        ELSE Zero

\* stats["creative_score"] of generate_personal_stats(df, person_name)
creative_score(df, person_name) ==
    LET person_df == PersonData(df, person_name)
        person_creative == SelectSeq(person_df, HasPercent)
    IN  IF person_df # <<>> /\ person_creative # <<>>
        THEN FSum(TaskScores(person_creative)) ELSE Zero

generate_personal_stats(df, person_name) ==
    [person_name |-> person_name, creative_score |-> creative_score(df, person_name)]

RankInit ==
    /\ tasks = <<>>
    /\ summary = NoPerformer
    /\ top_tasks = NoTable
    /\ most_creative = NoTable
    /\ stats = NoStats
    /\ rank_pc = "table"
    /\ PureIdle
    /\ ScanIdle
    /\ WorklogIdle
    /\ MainIdle
    /\ CatIdle

\* one more record of the table
AppendRecord ==
    /\ rank_pc = "table"
    /\ Len(tasks) < MaxTasks
    /\ \E r \in TaskRecords : tasks' = Append(tasks, r)
    /\ UNCHANGED <<summary, top_tasks, most_creative, stats, rank_pc, pureVars,
                   scanVars, wlVars, mainVars, catVars>>

CallSummary ==
    /\ rank_pc = "table"
    /\ summary' = generate_executive_summary(tasks)
    /\ rank_pc' = "summarised"
    /\ UNCHANGED <<tasks, top_tasks, most_creative, stats, pureVars, scanVars, wlVars,
                   mainVars, catVars>>

\* the table is not empty (main returns at line 317 when it is)
CallTopTasks ==
    /\ rank_pc = "summarised"
    /\ tasks # <<>>
    /\ top_tasks' = get_top_task_per_person(tasks)
    /\ rank_pc' = "ranked"
    /\ UNCHANGED <<tasks, summary, most_creative, stats, pureVars, scanVars, wlVars,
                   mainVars, catVars>>

\* app.py 421-469
ListTopTasks ==
    /\ rank_pc = "ranked"
    /\ most_creative' = most_creative_df_sorted(tasks)
    /\ rank_pc' = "listed"
    /\ UNCHANGED <<tasks, summary, top_tasks, stats, pureVars, scanVars, wlVars,
                   mainVars, catVars>>

\* generate_personal_stats(df, person_name) for a person of the table
CallPersonalStats ==
    /\ rank_pc = "listed"
    /\ \E person_name \in UniquePersons(tasks) :
           stats' = generate_personal_stats(tasks, person_name)
    /\ rank_pc' = "stats"
    /\ UNCHANGED <<tasks, summary, top_tasks, most_creative, pureVars, scanVars,
                   wlVars, mainVars, catVars>>

RankNext ==
    \/ AppendRecord
    \/ CallSummary
    \/ CallTopTasks
    \/ ListTopTasks
    \/ CallPersonalStats

SpecRank == RankInit /\ [][RankNext]_vars

-----------------------------------------------------------------------------
(* helpers.py: generate_executive_summary on the table of a team, one task *)
(* record per person.                                                      *)

\* (Total Time Spent of the person's level-1 row, description of its
\* level-2 row)
TeamEfforts ==
    {<<Text(<<"1", "0", ":", "0", "0">>), Text(<<"9", "0">>)>>,
     <<Text(<<"1", "1", ":", "0", "0">>), Text(<<"5", "0">>)>>,
     <<Text(<<"0", ":", "0", "0">>), NullCell>>}

\* the record of the i-th person of the team, "P1", "P2", ...
TeamRecord(i, e) ==
    LET task == TaskDict(Text(<<"P", DigitChar(i)>>),
                         Text(<<"T", "a", "s", "k", " ", "A">>),
                         Text(<<"K", "E", "Y", "-", "1">>), e[1])
        creative_percent == extract_creative_percentage(e[2])
    IN  IF creative_percent # None
        THEN WithPercent(task, Val(creative_percent))
        ELSE task

TeamInit == RankInit

\* the record of one more person
AppendTeamRecord ==
    /\ rank_pc = "table"
    /\ Len(tasks) < MaxTeam
    /\ \E e \in TeamEfforts : tasks' = Append(tasks, TeamRecord(Len(tasks) + 1, e))
    /\ UNCHANGED <<summary, top_tasks, most_creative, stats, rank_pc, pureVars,
                   scanVars, wlVars, mainVars, catVars>>

TeamNext ==
    \/ AppendTeamRecord
    \/ CallSummary

SpecTeam == TeamInit /\ [][TeamNext]_vars

-----------------------------------------------------------------------------
(* helpers.py: validate_data_structure; app.py: main, from the uploaded    *)
(* report sheet to the processed table (lines 270-317).  A run is main, or *)
(* a bare call of validate_data_structure on the sheet.                    *)

LevelColumn == "Level"
\* "Users / Issues / Procent pracy tworczej" (written without the diacritic)
DescriptionColumn == "Users / Issues / Procent pracy tworczej"
required_cols == {LevelColumn, DescriptionColumn}
OptionalColumns == {"Key", "Total Time Spent"}

\* df_raw.columns of the sheets considered
SheetColumnSets ==
    {required_cols \cup OptionalColumns,
     required_cols,
     {DescriptionColumn} \cup OptionalColumns,
     {LevelColumn} \cup OptionalColumns}

\* the rows of a sheet as pd.read_excel returns them: Level is a number or,
\* for an empty cell, NaN
SheetRows(cols) ==
    {Row(IntCell(0), d, NullCell, NullCell) :
        d \in {Text(<<"J", "a", "n">>), Text(<<"E", "w", "a">>)}}
        \cup {Row(IntCell(1), Text(<<"T", "a", "s", "k", " ", "A">>), e[1], e[2]) :
                e \in IF "Total Time Spent" \in cols
                      THEN {<<Text(<<"K", "E", "Y", "-", "1">>),
                              Text(<<"1", "0", ":", "0", "0">>)>>,
                            <<NullCell, NullCell>>}
                      ELSE {<<NullCell, NullCell>>}}
        \cup {Row(IntCell(2), d, NullCell, NullCell) :
                d \in {Text(<<"9", "0">>), NullCell}}
        \cup {Row(NullCell, Text(<<"J", "a", "n">>), NullCell, NullCell)}

\* df["Level"] == n on the sheet as read
LevelIs(row, n) == row.Level.kind = "int" /\ row.Level.n = n

\* the descriptions of the level-0 rows, NaN dropped
LevelZeroUsers(df) ==
    SelectSeq(Column(SelectSeq(df, LAMBDA r : LevelIs(r, 0)), "description"),
              LAMBDA d : ~IsNa(d))

\* users[users.duplicated()] is not empty
HasDuplicates(users) ==
    \E i, j \in 1..Len(users) : i < j /\ users[i] = users[j]

\* the warnings of lines 437-467, in order; the texts are the leading words
\* of the messages
structure_warnings(cols, df) ==
    LET Level(n) == SelectSeq(df, LAMBDA r : LevelIs(r, n))
        time_data ==
            SelectSeq(Column(Level(1), "time_spent"), LAMBDA t : ~IsNa(t))
        creative_data ==
            SelectSeq(Column(Level(2), "description"), LAMBDA d : ~IsNa(d))
    IN  (IF Level(0) = <<>> THEN <<"Brak poziomu 0">> ELSE <<>>)
        \o (IF Level(1) = <<>> THEN <<"Brak poziomu 1">> ELSE <<>>)
        \o (IF HasDuplicates(LevelZeroUsers(df))
            THEN <<"Wykryto duplikaty uzytkownikow">> ELSE <<>>)
        \o (IF "Total Time Spent" \in cols
            THEN IF Len(time_data) = 0
                 THEN <<"Brak danych czasu pracy">> ELSE <<>>
            ELSE <<"Brak kolumny 'Total Time Spent'">>)
        \o (IF Len(creative_data) = 0
            THEN <<"Brak danych o procentach pracy tworczej">> ELSE <<>>)

\* faulty variant: the df.empty check is left out
validate_data_structure_nonempty(cols, df) ==
    IF required_cols \ cols # {}
    THEN [issues |-> <<"Brakujace kolumny">>, warnings |-> <<>>]
    ELSE [issues |-> <<>>, warnings |-> structure_warnings(cols, df)]

validate_data_structure(cols, df) ==
    LET missing_cols == required_cols \ cols
    IN  IF missing_cols # {}
        THEN [issues |-> <<"Brakujace kolumny">>, warnings |-> <<>>]
        ELSE IF df = <<>>
        THEN [issues |-> <<"Plik jest pusty">>, warnings |-> <<>>]
        ELSE [issues |-> <<>>, warnings |-> structure_warnings(cols, df)]

\* pd.to_numeric(errors="coerce").fillna(0).astype(int) of one Level cell
CoerceLevel(cell) ==
    IF cell.kind = "int" THEN cell.n
    ELSE IF cell.kind = "text" /\ FloatParse(Strip(cell.s)) # None
                               /\ IsNum(Val(FloatParse(Strip(cell.s))))
    THEN Trunc(Val(FloatParse(Strip(cell.s))))
    ELSE 0

Coerced(df) == [i \in 1..Len(df) |-> [df[i] EXCEPT !.Level = CoerceLevel(@)]]

\* process_excel_data as a function of the table: the loop of lines 67-92
\* from the row at the head of df, with the locals current_user,
\* current_task (an index into report_data, 0 for None) and report_data
RECURSIVE Reshape(_, _, _, _, _)
Reshape(cols, df, user, task, report) ==
    IF df = <<>> THEN report
    ELSE LET row == Head(df)
             description == row.description
             key == IF "Key" \in cols THEN row.Key ELSE Text(<<>>)
             time_spent ==
                 IF "Total Time Spent" \in cols THEN row.time_spent
                 ELSE Text(<<"0", ":", "0", "0">>)
             creative_percent == extract_creative_percentage(description)
         IN  IF row.Level = 0
             THEN Reshape(cols, Tail(df), description, task, report)
             ELSE IF row.Level = 1 /\ Truthy(user)
             THEN Reshape(cols, Tail(df), user, Len(report) + 1,
                          Append(report, TaskDict(user, description, key, time_spent)))
             ELSE IF row.Level = 2 /\ task # 0 /\ ~IsNa(description)
                     /\ creative_percent # None
             THEN Reshape(cols, Tail(df), user, task,
                          [report EXCEPT ![task] = WithPercent(@, Val(creative_percent))])
             ELSE Reshape(cols, Tail(df), user, task, report)

process_excel_data(cols, df) == Reshape(cols, df, PyNone, 0, <<>>)

MainInit ==
    /\ sheet_columns \in SheetColumnSets
    /\ df_raw = <<>>
    /\ issues = <<>>
    /\ warnings = <<>>
    /\ df_result = <<>>
    /\ main_pc = "read"
    /\ LoadIdle
    /\ fn \in {"main", "validate_data_structure"}
    /\ arg = NullCell
    /\ res = None
    /\ pc = "idle"
    /\ ScanIdle
    /\ WorklogIdle
    /\ RankIdle
    /\ CatIdle

\* pd.read_excel: one more row of the sheet
ReadSheetRow ==
    /\ main_pc = "read"
    /\ Len(df_raw) < MaxSheet
    /\ \E row \in SheetRows(sheet_columns) : df_raw' = Append(df_raw, row)
    /\ UNCHANGED <<sheet_columns, issues, warnings, df_result, main_pc,
                   pureVars, scanVars, wlVars, rankVars, catVars, loadVars>>

\* main, lines 271-275: st.error and return when a required column is missing
CheckRequiredColumns ==
    /\ fn = "main"
    /\ main_pc = "read"
    /\ main_pc' = IF required_cols \subseteq sheet_columns
                  THEN "validate" ELSE "no_columns"
    /\ UNCHANGED <<sheet_columns, df_raw, issues, warnings, df_result,
                   pureVars, scanVars, wlVars, rankVars, catVars, loadVars>>

\* faulty variant: the issues are shown and the run goes on
ValidateAndGoOn ==
    /\ main_pc = "validate"
    /\ issues' = validate_data_structure(sheet_columns, df_raw).issues
    /\ warnings' = validate_data_structure(sheet_columns, df_raw).warnings
    /\ main_pc' = "process"
    /\ UNCHANGED <<sheet_columns, df_raw, df_result, pureVars, scanVars,
                   wlVars, rankVars, catVars, loadVars>>

\* main, lines 278-296: st.error and return when there are issues, the
\* warnings are shown otherwise
Validate ==
    /\ main_pc = "validate"
    /\ issues' = validate_data_structure(sheet_columns, df_raw).issues
    /\ warnings' = validate_data_structure(sheet_columns, df_raw).warnings
    /\ main_pc' = IF issues' # <<>> THEN "invalid" ELSE "process"
    /\ UNCHANGED <<sheet_columns, df_raw, df_result, pureVars, scanVars,
                   wlVars, rankVars, catVars, loadVars>>

\* main, lines 299-317: Level is coerced, the table is reshaped, and an
\* empty result ends the run with a warning
Process ==
    /\ main_pc = "process"
    /\ df_raw' = Coerced(df_raw)
    /\ df_result' = process_excel_data(sheet_columns, df_raw')
    /\ main_pc' = IF df_result' = <<>> THEN "no_data" ELSE "report"
    /\ UNCHANGED <<sheet_columns, issues, warnings, pureVars, scanVars,
                   wlVars, rankVars, catVars, loadVars>>

\* validate_data_structure(df) called on its own
CallValidate ==
    /\ fn = "validate_data_structure"
    /\ main_pc = "read"
    /\ issues' = validate_data_structure(sheet_columns, df_raw).issues
    /\ warnings' = validate_data_structure(sheet_columns, df_raw).warnings
    /\ main_pc' = "returned"
    /\ UNCHANGED <<sheet_columns, df_raw, df_result, pureVars, scanVars,
                   wlVars, rankVars, catVars, loadVars>>

\* the columns process_worklogs_data reads
WorklogColumns ==
    {"Start Date", "Time Spent", "Procent pracy tworczej", "Author",
     "Issue Summary", "Issue Key"}

\* an upload pd.read_excel cannot read, and a sheet with its columns and rows
Unreadable == [kind |-> "unreadable", columns |-> {}, rows |-> <<>>]
Sheet(cols, sheet_rows) == [kind |-> "sheet", columns |-> cols, rows |-> sheet_rows]

\* a worklog row of Jan with the given Start Date cell
DatedWorklog(d) ==
    [Author |-> Text(<<"J", "a", "n">>), IssueSummary |-> Text(<<"T", "a", "s", "k">>),
     IssueKey |-> Text(<<"K", "1">>), TimeSpent |-> Text(<<"1", "0", ":", "0", "0">>),
     Percent |-> Text(<<"9", "0">>), StartDate |-> d]

\* the uploads considered: none, an unreadable file, and sheets with all
\* columns or without "Start Date" holding no row, one month, two months or
\* a row without a date
WorklogFiles ==
    {NoFile, Unreadable}
        \cup {Sheet(cols, sheet_rows) :
                cols \in {WorklogColumns, WorklogColumns \ {"Start Date"}},
                sheet_rows \in {<<>>,
                                <<DatedWorklog(Date(2025, 12))>>,
                                <<DatedWorklog(Date(2025, 12)), DatedWorklog(Date(2026, 1))>>,
                                <<DatedWorklog(Text(<<"a", "b", "c">>))>>}}

\* sorted(df_worklogs_by_month.keys(), reverse=True)
ReverseSeq(s) == [i \in 1..Len(s) |-> s[Len(s) + 1 - i]]

\* the variables of the worklog block before it ran
NothingLoaded ==
    [raised |-> FALSE, df_worklogs_raw |-> <<>>, df_worklogs |-> <<>>,
     by_month |-> <<>>, months |-> <<>>]

\* lines 331-352: the month groups and months_available, when df_worklogs
\* is not empty
GroupWorklogs(df_worklogs_raw, df_worklogs) ==
    IF df_worklogs = <<>>
    THEN [NothingLoaded EXCEPT !.df_worklogs_raw = df_worklogs_raw]
    ELSE [raised |-> FALSE,
          df_worklogs_raw |-> df_worklogs_raw,
          df_worklogs |-> df_worklogs,
          by_month |-> GroupedByMonth(df_worklogs),
          months |-> ReverseSeq(SortedMonths(MonthKeys(df_worklogs)))]

\* the variables of main as the worklog block left them
WorklogsLeft(block) ==
    /\ wl_raw' = block.df_worklogs_raw
    /\ df_processed' = block.df_worklogs
    /\ df_worklogs_by_month' = block.by_month
    /\ months_available' = block.months
    /\ worklog_error' = block.raised

\* the try block of lines 324-357: raised tells whether a statement raised,
\* the other fields are the variables as the block left them
TryWorklogs(file) ==
    IF file.kind = "unreadable"
    THEN [NothingLoaded EXCEPT !.raised = TRUE]
    ELSE IF ~(WorklogColumns \subseteq file.columns)
    THEN [NothingLoaded EXCEPT !.raised = TRUE, !.df_worklogs_raw = file.rows]
    ELSE GroupWorklogs(file.rows, process_worklogs_data(file.rows))

\* faulty variant: a failure of the worklog block is not caught and ends
\* the run in the handler of line 1707
LoadWorklogsUncaught ==
    /\ main_pc = "report"
    /\ \E file \in WorklogFiles :
        /\ worklogs_file' = file
        /\ IF file.kind = "none"
           THEN /\ UNCHANGED <<wl_raw, df_processed, df_worklogs_by_month,
                               months_available, worklog_error>>
                /\ main_pc' = "loaded"
           ELSE /\ WorklogsLeft(TryWorklogs(file))
                /\ main_pc' = IF worklog_error' THEN "failed" ELSE "loaded"
    /\ UNCHANGED <<sheet_columns, df_raw, issues, warnings, df_result, tabs,
                   df_agg, wl_pc, pureVars, scanVars, rankVars, catVars>>

\* main, lines 319-362: the optional worklog file is read, normalised and
\* grouped by month; a failure is reported by st.error and the run goes on
LoadWorklogs ==
    /\ main_pc = "report"
    /\ \E file \in WorklogFiles :
        /\ worklogs_file' = file
        /\ IF file.kind = "none"
           THEN UNCHANGED <<wl_raw, df_processed, df_worklogs_by_month,
                            months_available, worklog_error>>
           ELSE WorklogsLeft(TryWorklogs(file))
    /\ main_pc' = "loaded"
    /\ UNCHANGED <<sheet_columns, df_raw, issues, warnings, df_result, tabs,
                   df_agg, wl_pc, pureVars, scanVars, rankVars, catVars>>

\* main, lines 364-1695: the main report is rendered, and the analyses per
\* month when months_available and df_worklogs_by_month are both non-empty
Render ==
    /\ main_pc = "loaded"
    /\ tabs' = {"report"} \cup
               (IF months_available # <<>> /\ df_worklogs_by_month # <<>>
                THEN {"months"} ELSE {})
    /\ main_pc' = "rendered"
    /\ UNCHANGED <<sheet_columns, df_raw, issues, warnings, df_result,
                   worklogs_file, months_available, worklog_error,
                   pureVars, scanVars, wlVars, rankVars, catVars>>

MainNext ==
    \/ ReadSheetRow
    \/ CheckRequiredColumns
    \/ Validate
    \/ Process
    \/ LoadWorklogs
    \/ Render
    \/ CallValidate

SpecMain == MainInit /\ [][MainNext]_vars

-----------------------------------------------------------------------------
(* helpers.py: the classification loops of _add_category_insights (lines   *)
(* 1053-1073) and _categorize_personal_tasks (lines 1507-1519).  A Polish  *)
(* letter is one element of a text, written as its base letter followed    *)
(* by "~".  The insight sentences built from categories_data are left out. *)

\* keywords of _add_category_insights, in dict order
category_insight_keywords ==
    <<
      [cat |-> "Bug/Hotfix", kws |-> <<
          <<"b", "u", "g">>,
          <<"h", "o", "t", "f", "i", "x">>,
          <<"c", "r", "a", "s", "h">>,
          <<"b", "l~", "a~", "d">>,
          <<"e", "r", "r", "o", "r">>,
          <<"p", "r", "o", "b", "l", "e", "m", " ", "z">>,
          <<"n", "i", "e", "z", "g", "o", "d", "n", "o", "s~", "c~">>,
          <<"u", "s", "z", "k", "o", "d", "z">>,
          <<"a", "w", "a", "r", "i", "a">>,
          <<"n", "a", "p", "r">>,
          <<"f", "i", "x">>>>],
      [cat |-> "Code Review", kws |-> <<
          <<"r", "e", "v", "i", "e", "w">>,
          <<"p", "u", "l", "l", " ", "r", "e", "q", "u", "e", "s", "t">>,
          <<"p", "r", " ">>,
          <<"f", "e", "e", "d", "b", "a", "c", "k", " ", "c", "o", "d", "e">>,
          <<"s", "p", "r", "a", "w", "d", "z", "e", "n", "i", "e", " ", "k", "o", "d", "u">>,
          <<"c", "o", "d", "e", " ", "r", "e", "v", "i", "e", "w">>>>],
      [cat |-> "Testing", kws |-> <<
          <<"t", "e", "s", "t">>,
          <<"q", "a">>,
          <<"v", "a", "l", "i", "d", "a", "t", "i", "o", "n">>,
          <<"w", "e", "r", "y", "f", "i", "k", "a", "c", "j", "a">>,
          <<"a", "c", "c", "e", "p", "t", "a", "n", "c", "e">>,
          <<"e", "2", "e">>,
          <<"u", "n", "i", "t">>,
          <<"t", "e", "s", "t", "o", "w", "a", "n", "i">>,
          <<"t", "e", "s", "t", "y">>>>],
      [cat |-> "Development", kws |-> <<
          <<"f", "e", "a", "t", "u", "r", "e">>,
          <<"i", "m", "p", "l", "e", "m", "e", "n", "t">>,
          <<"d", "e", "v", "e", "l", "o", "p">>,
          <<"b", "u", "i", "l", "d">>,
          <<"f", "u", "n", "k", "c", "j">>,
          <<"k", "o", "d">>,
          <<"r", "e", "f", "a", "c", "t", "o", "r">>,
          <<"w", "d", "r", "o", "z~", "e", "n", "i">>,
          <<"s", "t", "w", "o", "r", "z">>,
          <<"e", "n", "d", "p", "o", "i", "n", "t">>,
          <<"k", "o", "m", "p", "o", "n", "e", "n", "t">>,
          <<"o", "b", "s", "l~", "u", "g">>,
          <<"l", "o", "g", "i", "k">>,
          <<"e", "d", "y", "c", "j">>,
          <<"p", "o", "p", "r", "a", "w">>,
          <<"u", "l", "e", "p", "s", "z">>,
          <<"i", "m", "p", "r", "o", "v", "e">>,
          <<"e", "d", "y", "c", "j", "a">>>>],
      [cat |-> "DevOps/Infrastructure", kws |-> <<
          <<"d", "e", "p", "l", "o", "y">>,
          <<"d", "e", "p", "l", "o", "y", "m", "e", "n", "t">>,
          <<"c", "i", "/", "c", "d">>,
          <<"c", "i", " ">>,
          <<"c", "d", " ">>,
          <<"p", "i", "p", "e", "l", "i", "n", "e">>,
          <<"g", "i", "t", "l", "a", "b", "-", "c", "i">>,
          <<"d", "o", "c", "k", "e", "r">>,
          <<"k", "u", "b", "e", "r", "n", "e", "t", "e", "s">>,
          <<"i", "n", "f", "r", "a">>,
          <<"s", "e", "r", "w", "e", "r">>,
          <<"b", "a", "z", "a", " ", "d", "a", "n", "y", "c", "h">>,
          <<"m", "o", "n", "i", "t", "o", "r", "i", "n", "g">>,
          <<"l", "o", "g", "g", "i", "n", "g">>,
          <<"k", "o", "n", "f", "i", "g", "u", "r", "u", "j">>,
          <<"i", "n", "f", "r", "a", "s", "t", "r", "u", "c", "t", "u", "r", "e">>,
          <<"s~", "r", "o", "d", "o", "w", "i", "s", "k">>>>],
      [cat |-> "Analysis/Design", kws |-> <<
          <<"a", "n", "a", "l", "i", "z">>,
          <<"p", "r", "z", "e", "g", "l", "a~", "d">>,
          <<"d", "i", "a", "g", "r", "a", "m">>,
          <<"d", "e", "s", "i", "g", "n">>,
          <<"d", "o", "k", "u", "m", "e", "n", "t", "u", "j">>,
          <<"a", "r", "c", "h", "i", "t", "e", "k", "t", "u", "r">>,
          <<"z", "a", "p", "o", "z", "n", "a", "n", "i">>,
          <<"s", "p", "r", "a", "w", "d", "z">>,
          <<"r", "e", "s", "e", "a", "r", "c", "h">>,
          <<"b", "a", "d", "a", "n", "i">>,
          <<"o", "c", "e", "n">>,
          <<"k", "o", "n", "c", "e", "p", "j">>,
          <<"w", "y", "m", "a", "g", "a", "n">>>>],
      [cat |-> "Training/Learning", kws |-> <<
          <<"s", "z", "k", "o", "l", "e", "n", "i">>,
          <<"w", "e", "b", "i", "n", "a", "r">>,
          <<"t", "r", "a", "i", "n", "i", "n", "g">>,
          <<"w", "o", "r", "k", "s", "h", "o", "p">>,
          <<"m", "o", "d", "u", "l~">>,
          <<"k", "u", "r", "s">>,
          <<"n", "a", "u", "k">>,
          <<"e", "d", "u", "k", "a", "c", "j">>,
          <<"c", "e", "r", "t", "i", "f", "i", "k", "a", "c", "j">>,
          <<"c", "o", "p", "i", "l", "o", "t">>,
          <<"s", "a", "m", "o", "s", "z", "k", "o", "l", "e", "n", "i">>>>],
      [cat |-> "Meetings", kws |-> <<
          <<"s", "p", "o", "t", "k", "a", "n", "i">>,
          <<"m", "e", "e", "t", "i", "n", "g">>,
          <<"c", "a", "l", "l">>,
          <<"s", "t", "a", "n", "d", "u", "p">>,
          <<"d", "a", "i", "l", "y">>,
          <<"r", "e", "t", "r", "o">>,
          <<"r", "e", "t", "r", "o", "s", "p", "e", "c", "t", "i", "v">>,
          <<"p", "l", "a", "n", "n", "i", "n", "g">>,
          <<"r", "e", "f", "i", "n", "e", "m", "e", "n", "t">>,
          <<"g", "r", "o", "o", "m", "i", "n", "g">>,
          <<"s", "e", "s", "j">>,
          <<"b", "r", "i", "e", "f", "i", "n", "g">>,
          <<"s", "y", "n", "c">>,
          <<"k", "i", "c", "k", "-", "o", "f", "f">>,
          <<"k", "o", "m", "i", "t", "e", "t">>,
          <<"p", "o", "s", "i", "e", "d", "z", "e", "n", "i">>,
          <<"d", "y", "s", "k", "u", "s", "j">>,
          <<"s", "c", "r", "u", "m">>>>],
      [cat |-> "Administration/Support", kws |-> <<
          <<"a", "d", "m", "i", "n", "i", "s", "t", "r", "a", "j">>,
          <<"s", "u", "p", "p", "o", "r", "t">>,
          <<"h", "e", "l", "p", " ", "d", "e", "s", "k">>,
          <<"h", "e", "l", "p", " ">>,
          <<"i", "n", "c", "i", "d", "e", "n", "t">>,
          <<"z", "g", "l~", "o", "s", "z", "e", "n", "i">>,
          <<"o", "b", "s", "l~", "u", "g">>,
          <<"w", "s", "p", "a", "r", "c", "i">>,
          <<"m", "a", "i", "l">>,
          <<"t", "e", "l", "e", "f", "o", "n">>,
          <<"b", "i", "u", "r", "o">>,
          <<"d", "o", "s", "t", "e~", "p">>,
          <<"u", "p", "r", "a", "w", "n", "i">>,
          <<"k", "o", "n", "t", "o">>,
          <<"p", "a", "p", "i", "e", "r", "o", "l", "o", "g", "i">>>>]
    >>

\* keywords of _categorize_personal_tasks, in dict order
personal_task_keywords ==
    <<
      [cat |-> "Bug/Hotfix", kws |-> <<
          <<"b", "u", "g">>,
          <<"h", "o", "t", "f", "i", "x">>,
          <<"c", "r", "a", "s", "h">>,
          <<"b", "l~", "a~", "d">>,
          <<"e", "r", "r", "o", "r">>,
          <<"p", "r", "o", "b", "l", "e", "m", " ", "z">>,
          <<"n", "i", "e", "z", "g", "o", "d", "n", "o", "s~", "c~">>,
          <<"u", "s", "z", "k", "o", "d", "z">>,
          <<"a", "w", "a", "r", "i", "a">>,
          <<"n", "a", "p", "r">>,
          <<"f", "i", "x">>>>],
      [cat |-> "Code Review", kws |-> <<
          <<"r", "e", "v", "i", "e", "w">>,
          <<"p", "u", "l", "l", " ", "r", "e", "q", "u", "e", "s", "t">>,
          <<"p", "r", " ">>,
          <<"f", "e", "e", "d", "b", "a", "c", "k", " ", "c", "o", "d", "e">>,
          <<"s", "p", "r", "a", "w", "d", "z", "e", "n", "i", "e", " ", "k", "o", "d", "u">>,
          <<"c", "o", "d", "e", " ", "r", "e", "v", "i", "e", "w">>>>],
      [cat |-> "Testing", kws |-> <<
          <<"t", "e", "s", "t">>,
          <<"q", "a">>,
          <<"v", "a", "l", "i", "d", "a", "t", "i", "o", "n">>,
          <<"w", "e", "r", "y", "f", "i", "k", "a", "c", "j", "a">>,
          <<"a", "c", "c", "e", "p", "t", "a", "n", "c", "e">>,
          <<"e", "2", "e">>,
          <<"u", "n", "i", "t">>,
          <<"t", "e", "s", "t", "o", "w", "a", "n", "i">>,
          <<"t", "e", "s", "t", "y">>>>],
      [cat |-> "Development/Implementacja", kws |-> <<
          <<"f", "e", "a", "t", "u", "r", "e">>,
          <<"i", "m", "p", "l", "e", "m", "e", "n", "t">>,
          <<"d", "e", "v", "e", "l", "o", "p">>,
          <<"b", "u", "i", "l", "d">>,
          <<"f", "u", "n", "k", "c", "j">>,
          <<"k", "o", "d">>,
          <<"r", "e", "f", "a", "c", "t", "o", "r">>,
          <<"w", "d", "r", "o", "z~", "e", "n", "i">>,
          <<"s", "t", "w", "o", "r", "z">>,
          <<"e", "n", "d", "p", "o", "i", "n", "t">>,
          <<"k", "o", "m", "p", "o", "n", "e", "n", "t">>,
          <<"o", "b", "s", "l~", "u", "g">>,
          <<"l", "o", "g", "i", "k">>,
          <<"e", "d", "y", "c", "j">>,
          <<"p", "o", "p", "r", "a", "w">>,
          <<"u", "l", "e", "p", "s", "z">>,
          <<"i", "m", "p", "r", "o", "v", "e">>,
          <<"e", "d", "y", "c", "j", "a">>>>],
      [cat |-> "Analiza/Design", kws |-> <<
          <<"a", "n", "a", "l", "i", "z">>,
          <<"p", "r", "z", "e", "g", "l", "a~", "d">>,
          <<"d", "i", "a", "g", "r", "a", "m">>,
          <<"d", "e", "s", "i", "g", "n">>,
          <<"d", "o", "k", "u", "m", "e", "n", "t", "u", "j">>,
          <<"a", "r", "c", "h", "i", "t", "e", "k", "t", "u", "r">>,
          <<"z", "a", "p", "o", "z", "n", "a", "n", "i">>,
          <<"s", "p", "r", "a", "w", "d", "z">>,
          <<"r", "e", "s", "e", "a", "r", "c", "h">>,
          <<"b", "a", "d", "a", "n", "i">>,
          <<"o", "c", "e", "n">>,
          <<"k", "o", "n", "c", "e", "p", "j">>,
          <<"w", "y", "m", "a", "g", "a", "n">>>>],
      [cat |-> "DevOps/Infrastruktura", kws |-> <<
          <<"d", "e", "p", "l", "o", "y">>,
          <<"d", "e", "p", "l", "o", "y", "m", "e", "n", "t">>,
          <<"c", "i", "/", "c", "d">>,
          <<"c", "i", " ">>,
          <<"c", "d", " ">>,
          <<"p", "i", "p", "e", "l", "i", "n", "e">>,
          <<"g", "i", "t", "l", "a", "b", "-", "c", "i">>,
          <<"d", "o", "c", "k", "e", "r">>,
          <<"k", "u", "b", "e", "r", "n", "e", "t", "e", "s">>,
          <<"i", "n", "f", "r", "a">>,
          <<"s", "e", "r", "w", "e", "r">>,
          <<"b", "a", "z", "a", " ", "d", "a", "n", "y", "c", "h">>,
          <<"m", "o", "n", "i", "t", "o", "r", "i", "n", "g">>,
          <<"l", "o", "g", "g", "i", "n", "g">>,
          <<"k", "o", "n", "f", "i", "g", "u", "r", "u", "j">>,
          <<"i", "n", "f", "r", "a", "s", "t", "r", "u", "c", "t", "u", "r", "e">>,
          <<"s~", "r", "o", "d", "o", "w", "i", "s", "k">>>>],
      [cat |-> "Szkolenia/Uczenie", kws |-> <<
          <<"s", "z", "k", "o", "l", "e", "n", "i">>,
          <<"w", "e", "b", "i", "n", "a", "r">>,
          <<"t", "r", "a", "i", "n", "i", "n", "g">>,
          <<"w", "o", "r", "k", "s", "h", "o", "p">>,
          <<"m", "o", "d", "u", "l~">>,
          <<"k", "u", "r", "s">>,
          <<"n", "a", "u", "k">>,
          <<"e", "d", "u", "k", "a", "c", "j">>,
          <<"c", "e", "r", "t", "y", "f", "i", "k", "a", "c", "j">>,
          <<"c", "o", "p", "i", "l", "o", "t">>,
          <<"s", "a", "m", "o", "s", "z", "k", "o", "l", "e", "n", "i">>>>],
      [cat |-> "Administracja/Support", kws |-> <<
          <<"a", "d", "m", "i", "n", "i", "s", "t", "r", "a", "j">>,
          <<"s", "u", "p", "p", "o", "r", "t">>,
          <<"h", "e", "l", "p", " ", "d", "e", "s", "k">>,
          <<"h", "e", "l", "p", " ">>,
          <<"i", "n", "c", "i", "d", "e", "n", "t">>,
          <<"z", "g", "l~", "o", "s", "z", "e", "n", "i">>,
          <<"o", "b", "s", "l~", "u", "g">>,
          <<"w", "s", "p", "a", "r", "c", "i">>,
          <<"m", "a", "i", "l">>,
          <<"t", "e", "l", "e", "f", "o", "n">>,
          <<"b", "i", "u", "r", "o">>,
          <<"d", "o", "s", "t", "e~", "p">>,
          <<"u", "p", "r", "a", "w", "n", "i">>,
          <<"k", "o", "n", "t", "o">>>>],
      [cat |-> "Spotkania/Sesje", kws |-> <<
          <<"s", "p", "o", "t", "k", "a", "n", "i">>,
          <<"m", "e", "e", "t", "i", "n", "g">>,
          <<"c", "a", "l", "l">>,
          <<"s", "t", "a", "n", "d", "u", "p">>,
          <<"d", "a", "i", "l", "y">>,
          <<"r", "e", "t", "r", "o">>,
          <<"r", "e", "t", "r", "o", "s", "p", "e", "c", "t", "i", "v">>,
          <<"p", "l", "a", "n", "n", "i", "n", "g">>,
          <<"r", "e", "f", "i", "n", "e", "m", "e", "n", "t">>,
          <<"g", "r", "o", "o", "m", "i", "n", "g">>,
          <<"s", "e", "s", "j">>,
          <<"b", "r", "i", "e", "f", "i", "n", "g">>,
          <<"s", "y", "n", "c">>,
          <<"k", "i", "c", "k", "-", "o", "f", "f">>,
          <<"k", "o", "m", "i", "t", "e", "t">>,
          <<"p", "o", "s", "i", "e", "d", "z", "e", "n", "i">>,
          <<"d", "y", "s", "k", "u", "s", "j">>,
          <<"s", "c", "r", "u", "m">>>>]
    >>

\* the task labels of the tables considered; an empty cell is NaN
CategoryLabels ==
    {Text(<<"F", "i", "x", " ", "t", "e", "s", "t">>),
     Text(<<"C", "o", "d", "e", " ", "R", "e", "v", "i", "e", "w">>),
     Text(<<"O", "b", "s", "l~", "u", "g", "a">>),
     Text(<<"L", "u", "n", "c", "h">>),
     NullCell}

\* a task with its label, time_hours and creative_percent
CategoryTask(task, time_hours, creative_percent) ==
    [task |-> task, time_hours |-> time_hours,
     creative_percent |-> creative_percent,
     creative_hours |-> IF creative_percent = None THEN Zero
                        ELSE PercentOf(Val(creative_percent), time_hours)]

\* every label with one hour and no percentage, two of them also with two
\* and a half hours at 50 percent
CategoryTasks ==
    {CategoryTask(t, Num(1, 1), None) : t \in CategoryLabels}
        \cup {CategoryTask(t, Num(5, 2), Some(50)) :
                t \in {Text(<<"F", "i", "x", " ", "t", "e", "s", "t">>),
                       Text(<<"C", "o", "d", "e", " ", "R", "e", "v", "i", "e", "w">>)}}

\* one element of df["task"].str.lower().str.contains("|".join(kws), na=False):
\* no keyword holds a character that is special in a regular expression, so
\* the alternation matches when one keyword is a substring
Matches(task, kws) ==
    /\ task.kind = "text"
    /\ \E i \in 1..Len(kws) : Contains(Lower(task.s), kws[i])

\* faulty variant: a task is given to the first category it matches only
MaskOfFirstMatch(df, keywords, c) ==
    SelectSeq(df, LAMBDA r :
        /\ Matches(r.task, keywords[c].kws)
        /\ \A b \in 1..(c - 1) : ~Matches(r.task, keywords[b].kws))

\* df[mask] for the c-th category of keywords
Mask(df, keywords, c) ==
    SelectSeq(df, LAMBDA r : Matches(r.task, keywords[c].kws))

\* category_df[creative_mask]["creative_percent"].mean(), 0 without a value
avg_creative(category_df) ==
    LET with == SelectSeq(category_df, LAMBDA r : r.creative_percent # None)
    IN  IF with = <<>> THEN Zero
        ELSE Norm(FSum([i \in 1..Len(with) |-> Num(Val(with[i].creative_percent), 1)]).n,
                  FSum([i \in 1..Len(with) |-> Num(Val(with[i].creative_percent), 1)]).d
                      * Len(with))

\* categories_data of _add_category_insights: the categories with a task, in
\* dict order
category_insights_data(df) ==
    LET keywords == category_insight_keywords
        Entry(c) ==
            LET category_df == Mask(df, keywords, c)
            IN  [cat |-> keywords[c].cat,
                 hours |-> FSum(Column(category_df, "time_hours")),
                 avg_creative |-> avg_creative(category_df),
                 count |-> Len(category_df)]
    IN  SelectSeq([c \in 1..Len(keywords) |-> Entry(c)], LAMBDA e : e.count > 0)

\* categories_data of _categorize_personal_tasks
_categorize_personal_tasks(person_df) ==
    LET keywords == personal_task_keywords
        Entry(c) ==
            LET cat_df == Mask(person_df, keywords, c)
            IN  [cat |-> keywords[c].cat,
                 hours |-> FSum(Column(cat_df, "time_hours")),
                 creative_hours |-> FSum(Column(cat_df, "creative_hours")),
                 count |-> Len(cat_df)]
    IN  SelectSeq([c \in 1..Len(keywords) |-> Entry(c)], LAMBDA e : e.count > 0)

CatInit ==
    /\ category_table = <<>>
    /\ categories_data = <<>>
    /\ cat_pc = "table"
    /\ fn \in {"_add_category_insights", "_categorize_personal_tasks"}
    /\ arg = NullCell
    /\ res = None
    /\ pc = "idle"
    /\ ScanIdle
    /\ WorklogIdle
    /\ RankIdle
    /\ MainIdle

\* one more task of the table
AppendCategoryTask ==
    /\ cat_pc = "table"
    /\ Len(category_table) < MaxCat
    /\ \E r \in CategoryTasks : category_table' = Append(category_table, r)
    /\ UNCHANGED <<categories_data, cat_pc, pureVars, scanVars, wlVars,
                   rankVars, mainVars>>

\* _add_category_insights(df, summary), lines 1053-1073
AddCategoryInsights ==
    /\ cat_pc = "table"
    /\ fn = "_add_category_insights"
    /\ categories_data' = category_insights_data(category_table)
    /\ cat_pc' = "classified"
    /\ UNCHANGED <<category_table, pureVars, scanVars, wlVars, rankVars, mainVars>>

\* stats["categories_breakdown"] = _categorize_personal_tasks(person_df)
CategorizePersonalTasks ==
    /\ cat_pc = "table"
    /\ fn = "_categorize_personal_tasks"
    /\ categories_data' = _categorize_personal_tasks(category_table)
    /\ cat_pc' = "classified"
    /\ UNCHANGED <<category_table, pureVars, scanVars, wlVars, rankVars, mainVars>>

CatNext ==
    \/ AppendCategoryTask
    \/ AddCategoryInsights
    \/ CategorizePersonalTasks

SpecCat == CatInit /\ [][CatNext]_vars

-----------------------------------------------------------------------------
(* One run: a report sheet is reshaped, or a worklog sheet is normalised   *)
(* and aggregated                                                          *)

Init ==
    /\ PureIdle
    /\ RankIdle
    /\ MainIdle
    /\ CatIdle
    /\ \/ ScanInit /\ WorklogIdle
       \/ ScanIdle /\ WorklogInit

Next ==
    \/ ReadPersonRow
    \/ ReadTaskRow
    \/ ReadPercentRow
    \/ SkipRow
    \/ ReturnReport
    \/ ReadWorklogRow
    \/ ProcessWorklogs
    \/ AggregateWorklogs
    \/ GroupByMonth

Spec == Init /\ [][Next]_vars

-----------------------------------------------------------------------------
(* Properties of the parsers (specification SpecPure) *)

ParsedTime == fn = "parse_time_to_hours" /\ pc = "done"
ExtractedPercent == fn = "extract_creative_percentage" /\ pc = "done"
RoundTripped == fn = "hours_to_hm_format" /\ pc = "done"

\* "H:MM" or "HH:MM": one or two digits, a colon, two digits
IsHMM(t) ==
    /\ Len(t) \in {4, 5}
    /\ t[Len(t) - 2] = ":"
    /\ AllDigits(SubSeq(t, 1, Len(t) - 3))
    /\ AllDigits(SubSeq(t, Len(t) - 1, Len(t)))

\* x and y are the same float (NaN included)
SameFloat(x, y) == FEq(x, y) \/ (x.k = "nan" /\ y.k = "nan")

\* C5 as stated: parse_time_to_hours gives 0.0 for null or empty input,
\* H + MM/60 for text "H:MM" or "HH:MM", the number for colon-free text that
\* is a number, and 0.0 for every other input.
C5_AsStated ==
    ParsedTime =>
        LET t == Strip(Str(arg))
            f == FloatParse(t)
        IN  IF IsNa(arg) \/ t = <<>> THEN FEq(res, Zero)
            ELSE IF IsHMM(t)
                 THEN FEq(res, Num(60 * DigitsVal(SubSeq(t, 1, Len(t) - 3))
                                     + DigitsVal(SubSeq(t, Len(t) - 1, Len(t))), 60))
            ELSE IF ~HasChar(t, ":") /\ f # None /\ IsNum(Val(f))
                 THEN FEq(res, Val(f))
            ELSE FEq(res, Zero)

\* C5 amended: parse_time_to_hours never raises; null, empty or blank input
\* gives 0.0; text with a colon gives int(a) + int(b)/60 for its first two
\* colon-separated fields a and b whenever int() accepts both (any number of
\* digits, an optional sign, later fields ignored); colon-free text that
\* float() accepts gives that float; every other input gives 0.0.
C5_ParseTimeTotal ==
    ParsedTime =>
        LET t == Strip(Str(arg))
            fields == Split(t, ":")
            f == FloatParse(t)
        IN  /\ res.k \in {"num", "inf", "nan"}
            /\ IF IsNa(arg) \/ t = <<>> THEN FEq(res, Zero)
               ELSE IF HasChar(t, ":")
                    THEN IF IntParse(fields[1]) # None /\ IntParse(fields[2]) # None
                         THEN FEq(res, Num(60 * Val(IntParse(fields[1]))
                                             + Val(IntParse(fields[2])), 60))
                         ELSE FEq(res, Zero)
               ELSE IF f # None THEN SameFloat(res, Val(f))
               ELSE FEq(res, Zero)

\* a text with three fields is parsed from its first two
C5_Witness ==
    /\ ParsedTime
    /\ arg = Text(<<"1", ":", "3", "0", ":", "4", "5">>)
    /\ FEq(res, Num(3, 2))

C7_PercentRange ==
    ExtractedPercent => (res = None \/ (Len(res) = 1 /\ Val(res) \in 0..100))

\* an out-of-range number was dropped, the upper boundary was kept
C7_Witness ==
    /\ ExtractedPercent
    /\ arg = Text(<<"1", "0", "0">>)
    /\ res = Some(100)

\* C8: a text whose whole trimmed content is a number outside [0,100]
\* gives None.
C8_OutOfRangeIsNone ==
    (/\ ExtractedPercent
     /\ arg.kind = "text"
     /\ FloatParse(Strip(arg.s)) # None
     /\ IsNum(Val(FloatParse(Strip(arg.s))))
     /\ ~InPercentRange(Val(FloatParse(Strip(arg.s)))))
        => res = None

-----------------------------------------------------------------------------
(* Properties of the aggregation (specification Spec) *)

Aggregated == wl_pc = "aggregated"

\* the rows of a table that satisfy a test, in table order
Where(df, Test(_)) == SelectSeq(df, Test)

HoursOf(df) == FSum(Column(df, "time_hours"))

\* C1: the sum of time_hours over the aggregated rows equals the sum of
\* time_hours over the input rows, whatever their task keys.
C1_HoursConserved ==
    Aggregated => FEq(HoursOf(df_agg), HoursOf(df_processed))

\* C2: for every person, the time_hours of the aggregated rows attributed to
\* that person sum to the time_hours of that person's input rows, also when
\* several persons share a task key (stated here for tables in which every
\* row has a key, the case C1 does not already decide).
C2_HoursPerPerson ==
    (Aggregated /\ \A i \in 1..Len(df_processed) : ~IsNa(df_processed[i].key)) =>
        \A a \in Authors :
            FEq(HoursOf(Where(df_agg, LAMBDA r : r.person = a)),
                HoursOf(Where(df_processed, LAMBDA r : r.person = a)))

\* the rows of a group that carry a percent and positive hours
Weighing(group) ==
    Where(group, LAMBDA r : r.creative_percent # None /\ r.time_hours.n > 0)

\* sum(percent_i * hours_i) over rows with a percent
WeightedSum(rs) ==
    FSum([i \in 1..Len(rs) |->
            Num(Val(rs[i].creative_percent) * rs[i].time_hours.n, rs[i].time_hours.d)])

\* percent equals w / h rounded to one decimal
IsRoundedMean(percent, w, h) ==
    20 * Abs(percent * h.n * w.d - w.n * h.d) <= h.n * w.d

\* C3: every aggregated row's creative_percent is the hour-weighted mean of
\* its group's rows with a percent and positive hours (to one decimal), and
\* None when there is no such row.
C3_WeightedMean ==
    Aggregated =>
        \A i \in 1..Len(df_agg) :
            LET rs == Weighing(GroupOf(df_processed, df_agg[i].key))
            IN  IF rs = <<>> THEN df_agg[i].creative_percent = None
                ELSE /\ df_agg[i].creative_percent # None
                     /\ IsRoundedMean(Val(df_agg[i].creative_percent),
                                      WeightedSum(rs), HoursOf(rs))

\* the non-null creative_percent values of a group
PercentsOf(group) ==
    {Val(group[i].creative_percent) :
        i \in {j \in 1..Len(group) : group[j].creative_percent # None}}

\* C4: an aggregated creative_percent that is not None lies between the
\* least and the greatest non-null creative_percent of its group's rows.
C4_PercentBounded ==
    Aggregated =>
        \A i \in 1..Len(df_agg) :
            LET p == df_agg[i].creative_percent
                ps == PercentsOf(GroupOf(df_processed, df_agg[i].key))
            IN  p # None =>
                    /\ \E lo \in ps : lo <= Val(p)
                    /\ \E hi \in ps : Val(p) <= hi

\* a group whose rows carry different percentages was aggregated
C4_Witness ==
    /\ Aggregated
    /\ \E i \in 1..Len(df_agg) :
        /\ df_agg[i].creative_percent = Some(50)
        /\ PercentsOf(GroupOf(df_processed, df_agg[i].key)) = {50, 90}

-----------------------------------------------------------------------------
(* Properties of the task records (specification Spec) *)

\* creative_hours is derived from time_hours and creative_percent
Derived(r) ==
    IF r.creative_percent = None THEN FEq(r.creative_hours, Zero)
    ELSE FEq(r.creative_hours,
             Num(r.time_hours.n * Val(r.creative_percent), r.time_hours.d * 100))

InBounds(r) ==
    /\ FLe(Zero, r.time_hours)
    /\ FLe(Zero, r.creative_hours)
    /\ FLe(r.creative_hours, r.time_hours)

\* C10: every record, whatever its time text and percentage text, has
\* time_hours >= 0 and 0 <= creative_hours <= time_hours.
C10_HoursInBounds ==
    /\ \A i \in 1..Len(report_data) : InBounds(report_data[i])
    /\ \A i \in 1..Len(df_processed) : InBounds(df_processed[i])

-----------------------------------------------------------------------------
(* Properties of the ranking functions (specification SpecRank) *)

Scored == rank_pc \in {"summarised", "ranked", "listed", "stats"}
Ranked == rank_pc \in {"ranked", "listed", "stats"}

\* a person's total Creative Score: the sum of creative_hours *
\* creative_percent / 100 over the person's tasks that have a percentage
TotalScore(person) ==
    FSum(TaskScores(SelectSeq(tasks,
        LAMBDA r : r.person = person /\ r.creative_percent # None)))

\* C11: every task with a creative percentage has a Creative Score
\* creative_hours * creative_percent / 100 with 0 <= score <= creative_hours.
C11_ScoreBounded ==
    Scored =>
        \A i \in 1..Len(tasks) :
            HasPercent(tasks[i]) =>
                /\ FLe(Zero, task_score(tasks[i]))
                /\ FLe(task_score(tasks[i]), tasks[i].creative_hours)

\* C12: a person's row of get_top_task_per_person has has_creative_data =
\* False, score 0 and the person's longest task exactly when none of the
\* person's rows has a creative_percent; with at least one such row (a
\* recorded 0 included) it has has_creative_data = True and the highest
\* Creative Score among the person's tasks.
C12_FallbackOnlyWithoutPercent ==
    Ranked /\ top_tasks.returned =>
        \A k \in 1..Len(top_tasks.rows) :
            LET row == top_tasks.rows[k]
                person_data == SelectSeq(tasks, LAMBDA r : r.person = row.person)
                with_percent == SelectSeq(person_data, HasPercent)
            IN  IF with_percent = <<>>
                THEN /\ ~row.has_creative_data
                     /\ FEq(row.score, Zero)
                     /\ \A i \in 1..Len(person_data) :
                            FLe(person_data[i].time_hours, row.time_hours)
                ELSE /\ row.has_creative_data
                     /\ \A i \in 1..Len(with_percent) :
                            FLe(task_score(with_percent[i]), row.score)
                     /\ \E i \in 1..Len(with_percent) :
                            FEq(task_score(with_percent[i]), row.score)

NonIncreasingTotals(rs) ==
    \A k \in 1..(Len(rs) - 1) :
        FLe(TotalScore(rs[k + 1].person), TotalScore(rs[k].person))

\* C13: the leaderboard of top tasks per person, the one the function returns
\* and the one the report tab shows, is ordered by non-increasing per-person
\* total score (not by the score of the top task of each row); stated for
\* tables without negative hours.
C13_OrderedByTotalScore ==
    rank_pc = "listed" /\ (\A i \in 1..Len(tasks) : FLe(Zero, tasks[i].time_hours)) =>
        /\ top_tasks.returned => NonIncreasingTotals(top_tasks.rows)
        /\ most_creative.returned => NonIncreasingTotals(most_creative.rows)

\* the named persons with at least one task that has a percentage
ScoredPersons == {p \in UniquePersons(SelectSeq(tasks, HasPercent)) : ~IsNa(p)}

-----------------------------------------------------------------------------
(* Properties of main and validate_data_structure (specification SpecMain) *)

MissingRequired == ~(required_cols \subseteq sheet_columns)

Range(s) == {s[i] : i \in 1..Len(s)}

Validated == main_pc \in {"invalid", "process", "returned"}

-----------------------------------------------------------------------------
(* Properties of the worklog normalizer and the month groups                *)
(* (specification Spec)                                                     *)

\* the month groups that hold the row with index label i
GroupsHolding(i) ==
    {g \in 1..Len(df_worklogs_by_month) :
        \E k \in 1..Len(df_worklogs_by_month[g].index) :
            df_worklogs_by_month[g].index[k] = i}

\* "YYYY-MM" of a date cell
YearMonth(date) ==
    NatToStr(date.n \div 12) \o <<"-">>
        \o (IF (date.n % 12) + 1 < 10 THEN <<"0">> ELSE <<>>)
        \o NatToStr((date.n % 12) + 1)

\* C17: process_worklogs_data returns one record per input row, in input
\* order; a record whose start date is unparsable has a null month key and is
\* in no month group, yet in the normalizer's output; a record with a
\* parsable date is in exactly one month group, once, that of its "YYYY-MM".
C17_MonthGroups ==
    /\ wl_pc \in {"processed", "aggregated", "grouped"} =>
        /\ Len(df_processed) = Len(wl_raw)
        /\ \A i \in 1..Len(wl_raw) :
            /\ df_processed[i].person = wl_raw[i].Author
            /\ df_processed[i].task = wl_raw[i].IssueSummary
            /\ df_processed[i].key = wl_raw[i].IssueKey
            /\ df_processed[i].time_hours = parse_time_to_hours(wl_raw[i].TimeSpent)
            /\ wl_raw[i].StartDate.kind # "date" => df_processed[i].month_str = None
    /\ wl_pc = "grouped" =>
        \A i \in 1..Len(wl_raw) :
            IF wl_raw[i].StartDate.kind # "date"
            THEN GroupsHolding(i) = {}
            ELSE \E g \in 1..Len(df_worklogs_by_month) :
                    /\ GroupsHolding(i) = {g}
                    /\ df_worklogs_by_month[g].month = YearMonth(wl_raw[i].StartDate)
                    /\ Cardinality({k \in 1..Len(df_worklogs_by_month[g].index) :
                            df_worklogs_by_month[g].index[k] = i}) = 1

\* three worklog rows: two months and one row without a parsable date
C17_Witness ==
    /\ wl_pc = "grouped"
    /\ Len(df_worklogs_by_month) = 2
    /\ \E i \in 1..Len(wl_raw) :
           wl_raw[i].StartDate.kind = "text" /\ df_processed[i].month_str = None

-----------------------------------------------------------------------------
(* Properties of the reshaper's loop (specification Spec) *)

\* the positions of the level-1 rows that have a level-0 row before them
TaskRowsAfterPerson(rs) ==
    SelectSeq([i \in 1..Len(rs) |-> i],
              LAMBDA i : rs[i].Level = 1 /\ \E j \in 1..(i - 1) : rs[j].Level = 0)

\* C19: the reshaper emits exactly one record for each level-1 row that is
\* preceded by at least one level-0 row, in input order, and no record for
\* any other row.
C19_OneRecordPerTaskRow ==
    scan \in {"loop", "returned"} =>
        LET expected == TaskRowsAfterPerson(rows)
        IN  /\ Len(report_data) = Len(expected)
            /\ \A k \in 1..Len(expected) :
                   report_data[k].task = rows[expected[k]].description

\* the level of the last level-0 or level-1 row, -1 when there is none
RECURSIVE LastContext(_)
LastContext(rs) ==
    IF rs = <<>> THEN -1
    ELSE IF rs[Len(rs)].Level \in {0, 1} THEN rs[Len(rs)].Level
    ELSE LastContext(SubSeq(rs, 1, Len(rs) - 1))

\* C20: a level-2 row that follows a level-0 row with no level-1 row in
\* between changes no record.
C20_NoOpenTaskAfterPerson ==
    [][(/\ Len(rows') = Len(rows) + 1
        /\ rows'[Len(rows')].Level = 2
        /\ LastContext(rows) = 0) => report_data' = report_data]_vars

-----------------------------------------------------------------------------
(* Properties of the level-2 rows (specification Spec) *)

\* the step iterates one more row, of the given level
Iterates(level) ==
    /\ Len(rows') = Len(rows) + 1
    /\ rows'[Len(rows')].Level = level

\* C21: when several level-2 rows with a non-null description follow one
\* level-1 row, the creative_percent of that row's task is the value
\* extracted from the last of them: each such row leaves the value extracted
\* from its own description in the task record, whatever was there before.
C21_LastWriteWins ==
    [][(/\ Iterates(2)
        /\ ~IsNa(rows'[Len(rows')].description)
        /\ LastContext(rows) = 1
        /\ Truthy(current_user))
       => report_data'[Len(report_data')].creative_percent =
              extract_creative_percentage(rows'[Len(rows')].description)]_vars

\* C22: a level-2 row never adds a record and changes at most the
\* creative_percent and creative_hours of the last-appended record; every
\* other field of that record and every earlier record stay unchanged, and a
\* level-2 row before any level-1 row or with a null description changes
\* nothing.
C22_PercentRowFrame ==
    [][Iterates(2) =>
        LET n == Len(report_data)
            row == rows'[Len(rows')]
        IN  /\ Len(report_data') = n
            /\ \A k \in 1..(n - 1) : report_data'[k] = report_data[k]
            /\ n > 0 =>
                 /\ report_data'[n].person = report_data[n].person
                 /\ report_data'[n].task = report_data[n].task
                 /\ report_data'[n].key = report_data[n].key
                 /\ report_data'[n].time_hours = report_data[n].time_hours
            /\ (IsNa(row.description) \/ \A j \in 1..Len(rows) : rows[j].Level # 1)
                 => report_data' = report_data]_vars

\* a level-2 row has set the percentage of the second of two records
C22_Witness ==
    /\ scan = "loop"
    /\ Len(rows) = 4
    /\ rows[4].Level = 2
    /\ Len(report_data) = 2
    /\ report_data[1].creative_percent = None
    /\ report_data[2].creative_percent = Some(90)

-----------------------------------------------------------------------------
(* Properties of the person of a record (specification Spec) *)

\* the description of the nearest level-0 row of rs, None when there is none
RECURSIVE NearestPerson(_)
NearestPerson(rs) ==
    IF rs = <<>> THEN None
    ELSE IF rs[Len(rs)].Level = 0 THEN Some(rs[Len(rs)].description)
    ELSE NearestPerson(SubSeq(rs, 1, Len(rs) - 1))

\* C23: every record the reshaper emits has a non-empty, non-null person,
\* equal to the description of the nearest preceding level-0 row, also when
\* a level-0 row has an empty or null description.
C23_PersonNamed ==
    [][Len(report_data') = Len(report_data) + 1 =>
        LET person == report_data'[Len(report_data')].person
        IN  /\ person.kind = "text"
            /\ person.s # <<>>
            /\ NearestPerson(rows) = Some(person)]_vars

-----------------------------------------------------------------------------
(* Properties of the percentage found inside a text (specification SpecPure) *)

\* t is digits, or digits "." digits
IsDecimalNumber(t) ==
    \/ AllDigits(t)
    \/ \E k \in 2..(Len(t) - 1) :
           /\ t[k] = "."
           /\ AllDigits(SubSeq(t, 1, k - 1))
           /\ AllDigits(SubSeq(t, k + 1, Len(t)))

\* the first decimal-number substring of s: it starts at the first digit and
\* is the longest decimal number from there; <<>> when s has no digit
FirstDecimal(s) ==
    IF \A i \in 1..Len(s) : s[i] \notin Digits THEN <<>>
    ELSE LET a == CHOOSE i \in 1..Len(s) :
                     s[i] \in Digits /\ \A b \in 1..(i - 1) : s[b] \notin Digits
             j == CHOOSE e \in a..Len(s) :
                     /\ IsDecimalNumber(SubSeq(s, a, e))
                     /\ \A f \in (e + 1)..Len(s) : ~IsDecimalNumber(SubSeq(s, a, f))
         IN  SubSeq(s, a, j)

\* the decimal number t truncated to an integer when it lies in [0,100]
TruncatedInRange(t) ==
    LET whole == IF HasChar(t, ".") THEN Split(t, ".")[1] ELSE t
        frac == IF HasChar(t, ".") THEN Split(t, ".")[2] ELSE <<>>
    IN  IF \/ DigitsVal(whole) < 100
           \/ DigitsVal(whole) = 100 /\ \A i \in 1..Len(frac) : frac[i] = "0"
        THEN Some(DigitsVal(whole))
        ELSE None

\* the value of the first decimal number of the text s, None without one
FromFirstDecimal(s) ==
    IF FirstDecimal(s) = <<>> THEN None ELSE TruncatedInRange(FirstDecimal(s))

\* the text is not a number as a whole
NotANumber(s) == FloatParse(s) = None

\* as stated: the sentinels are the texts that are exactly "", "none",
\* "nan" or "no data", in any letter case
C24_AsStated ==
    (/\ ExtractedPercent
     /\ arg.kind = "text"
     /\ Lower(Strip(arg.s)) \notin
            {<<>>, <<"n", "o", "n", "e">>, <<"n", "a", "n">>,
             <<"n", "o", " ", "d", "a", "t", "a">>}
     /\ NotANumber(Strip(arg.s)))
        => res = FromFirstDecimal(Strip(arg.s))

\* C24: for text that is not a number as a whole and contains neither
\* "No Procent" nor "Brak danych", extract_creative_percentage returns the
\* first decimal-number substring truncated to an integer when that number
\* lies in [0,100], and None otherwise, whatever numbers follow; text that
\* contains "No Procent" or "Brak danych" gives None.
C24_FirstNumberOnly ==
    (ExtractedPercent /\ arg.kind = "text" /\ NotANumber(Strip(arg.s))) =>
        IF Contains(arg.s, NoProcent) \/ Contains(arg.s, BrakDanych)
        THEN res = None
        ELSE res = FromFirstDecimal(Strip(arg.s))

\* the first number is out of range and the in-range number after it is not
\* considered
C24_Witness ==
    /\ ExtractedPercent
    /\ arg = Text(<<"1", "5", "0", " ", "5", "0">>)
    /\ res = None

-----------------------------------------------------------------------------
(* Properties of the task categories (specification SpecCat) *)

Classified == cat_pc = "classified"

\* the keyword table of the function that ran
KeywordsInUse ==
    IF fn = "_add_category_insights"
    THEN category_insight_keywords ELSE personal_task_keywords

\* the tasks whose lower-cased label contains a keyword of the c-th category
Members(c) ==
    {i \in 1..Len(category_table) :
        /\ category_table[i].task.kind = "text"
        /\ \E k \in 1..Len(KeywordsInUse[c].kws) :
               Contains(Lower(category_table[i].task.s), KeywordsInUse[c].kws[k])}

\* the hours of the tasks of a set of positions
HoursOfMembers(members) ==
    FSum([i \in 1..Len(category_table) |->
            IF i \in members THEN category_table[i].time_hours ELSE Zero])

\* C25: a task is counted in category C exactly when its lower-cased label
\* contains at least one keyword of C as a substring, independently for
\* every category: each category's count and hours are those of all tasks
\* matching it, whatever other categories the tasks match.
C25_MultiMembership ==
    Classified =>
        \A c \in 1..Len(KeywordsInUse) :
            LET entries == {j \in 1..Len(categories_data) :
                               categories_data[j].cat = KeywordsInUse[c].cat}
            IN  IF Members(c) = {} THEN entries = {}
                ELSE /\ Cardinality(entries) = 1
                     /\ \A j \in entries :
                            /\ categories_data[j].count = Cardinality(Members(c))
                            /\ FEq(categories_data[j].hours, HoursOfMembers(Members(c)))

\* the one task "Fix test" is counted, with its hours, under Bug/Hotfix and
\* under Testing
C25_Witness ==
    /\ Classified
    /\ Len(category_table) = 1
    /\ category_table[1].task = Text(<<"F", "i", "x", " ", "t", "e", "s", "t">>)
    /\ category_table[1].time_hours = Num(5, 2)
    /\ Len(categories_data) = 2
    /\ categories_data[1].cat = "Bug/Hotfix"
    /\ categories_data[2].cat = "Testing"
    /\ \A j \in 1..2 : categories_data[j].count = 1 /\ categories_data[j].hours = Num(5, 2)

-----------------------------------------------------------------------------
(* Properties of the encoding repair (specification SpecPure) *)

\* C26: for every key k of ENCODING_FIXES, fix_polish_encoding(k) is the
\* table's replacement for k.
C26_KeysRepaired ==
    (fn = "fix_polish_encoding" /\ pc = "done") =>
        \A i \in 1..Len(ENCODING_FIXES) :
            arg = Text(ENCODING_FIXES[i].wrong)
                => res = Text(ENCODING_FIXES[i].correct)

-----------------------------------------------------------------------------
(* Properties of the worklog upload (specification SpecMain) *)

\* C27: a failure while reading or processing the optional worklog file is
\* caught and reported and does not abort the run: the report, already
\* validated and processed, is still rendered, and after the failure no
\* analysis per month is offered.
C27_WorklogFailureCaught ==
    worklog_error =>
        /\ main_pc \in {"loaded", "rendered"}
        /\ main_pc = "loaded" => ENABLED Render
        /\ issues = <<>>
        /\ df_result # <<>>
        /\ months_available = <<>>
        /\ main_pc = "rendered" => tabs = {"report"}

\* a worklog sheet without its "Start Date" column failed, and the report
\* was rendered without the analyses per month
C27_Witness ==
    /\ worklog_error
    /\ worklogs_file.kind = "sheet"
    /\ worklogs_file.rows # <<>>
    /\ main_pc = "rendered"
    /\ tabs = {"report"}

-----------------------------------------------------------------------------
(* Properties of the per-person Creative Score (specification SpecRank) *)

\* the rows of a table that carry the given value in the given column
RowsOf(table, column, value) ==
    {i \in 1..Len(table) : table[i][column] = value}

\* C28: for every table and every person with at least one row carrying a
\* creative_percent, total_score of get_top_task_per_person, the "Creative
\* Score" of the productivity table of generate_executive_summary and
\* creative_score of generate_personal_stats are equal.  A person is a
\* name: rows without one belong to nobody, and a table holding such a row
\* gets no result from get_top_task_per_person.
C28_SameCreativeScore ==
    (/\ rank_pc = "stats"
     /\ ~IsNa(stats.person_name)
     /\ \E i \in 1..Len(tasks) :
            tasks[i].person = stats.person_name /\ HasPercent(tasks[i]))
        => LET productivity == RowsOf(summary.productivity_table, "Osoba", stats.person_name)
               top == RowsOf(top_tasks.rows, "person", stats.person_name)
           IN  /\ Cardinality(productivity) = 1
               /\ \A i \in productivity :
                      FEq(summary.productivity_table[i].creative_score,
                          stats.creative_score)
               /\ top_tasks.returned =>
                      /\ Cardinality(top) = 1
                      /\ \A i \in top :
                             FEq(top_tasks.rows[i].total_score, stats.creative_score)

\* Jan's two tasks, 10 h at 50 percent and 5 h at 90 percent, give 2.5 + 4.05
\* in all three places
C28_Witness ==
    /\ rank_pc = "stats"
    /\ stats.person_name = Text(<<"J", "a", "n">>)
    /\ stats.creative_score = Num(131, 20)
    /\ top_tasks.returned
    /\ \E i \in 1..Len(top_tasks.rows) :
           /\ top_tasks.rows[i].person = stats.person_name
           /\ top_tasks.rows[i].total_score = Num(131, 20)
    /\ \E i \in 1..Len(summary.productivity_table) :
           /\ summary.productivity_table[i].Osoba = stats.person_name
           /\ summary.productivity_table[i].creative_score = Num(131, 20)

\* C29: in every row of the result of get_top_task_per_person the score of
\* the top task is at most the person's total_score, for records with
\* creative_hours >= 0 and creative_percent absent or in [0,100].
C29_TopScoreWithinTotal ==
    (/\ Ranked
     /\ top_tasks.returned
     /\ \A i \in 1..Len(tasks) :
            /\ FLe(Zero, tasks[i].creative_hours)
            /\ HasPercent(tasks[i]) => Val(tasks[i].creative_percent) \in 0..100)
        => \A i \in 1..Len(top_tasks.rows) :
               FLe(top_tasks.rows[i].score, top_tasks.rows[i].total_score)

\* a person's top task scores less than the person's total, another's
\* exactly the total
C29_Witness ==
    /\ Ranked
    /\ top_tasks.returned
    /\ \A i \in 1..Len(tasks) : FLe(Zero, tasks[i].creative_hours)
    /\ \E i, j \in 1..Len(top_tasks.rows) :
           /\ FGt(top_tasks.rows[i].score, Zero)
           /\ FGt(top_tasks.rows[i].total_score, top_tasks.rows[i].score)
           /\ FGt(top_tasks.rows[j].score, Zero)
           /\ FEq(top_tasks.rows[j].total_score, top_tasks.rows[j].score)

-----------------------------------------------------------------------------
(* The hour-dominance insight (specification SpecTeam) *)

\* "Lacznie [h]" of the productivity rows of a person
HoursOfPerson(person) ==
    {summary.productivity_table[i].total_hours :
        i \in RowsOf(summary.productivity_table, "Osoba", person)}

\* C30: whenever generate_executive_summary emits the hour-dominance insight,
\* the person it names has total time_hours greater than or equal to the
\* total time_hours of every other person of the table.
C30_DominantHasMostHours ==
    (rank_pc = "summarised" /\ summary.dominance # None)
        => \A h \in HoursOfPerson(Val(summary.dominance)) :
               \A i \in 1..Len(summary.productivity_table) :
                   FLe(summary.productivity_table[i].total_hours, h)

-----------------------------------------------------------------------------
(* Properties of the colour bands (specification SpecPure) *)

Coloured == pc = "done" /\ fn \in {"get_color_for_percent", "get_fill_for_percent"}

\* C18: for every percentage p the red fill is chosen when p <= 50, the
\* yellow fill when 50 < p <= 80 and the green fill when p > 80, by
\* get_color_for_percent and, for every non-null p, by get_fill_for_percent.
C18_ColourBands ==
    Coloured /\ arg.k # "nan" =>
        LET AtMost(bound) ==
                IF arg.k = "inf" THEN arg.n < 0 ELSE arg.n <= bound * arg.d
        IN  /\ AtMost(50) => res = Some("FFE6E6")
            /\ ~AtMost(50) /\ AtMost(80) => res = Some("FFFFCC")
            /\ ~AtMost(80) => res = Some("E6FFE6")
            /\ res = Some(get_color_for_percent(arg))

\* the fill of exactly 50 percent is the red one
C18_Witness ==
    /\ Coloured
    /\ fn = "get_fill_for_percent"
    /\ arg = Num(100, 2)
    /\ res = Some(red_fill)

=============================================================================
